---- MODULE Spec2Model ----
(***************************************************************************)
(* Model of src/01_big-o-and-analysis: the benchmarking harness (bench.py) *)
(* and the growth-model fitter (growth_models.py).                         *)
(*                                                                         *)
(* Time is counted in units of 1e-12 s, the epsilon of _choose_loops, so   *)
(* that every duration the clock reports is a natural number and the clamp *)
(* "total <= 0 -> 1e-12" is "total <= 0 -> Eps".  A per-call sample, which  *)
(* the code keeps as a float, is kept as the exact fraction num/den.       *)
(***************************************************************************)
EXTENDS Integers, Naturals, Sequences, FiniteSets, TLC

VARIABLES cfg, n_values, clock, pc, i, x, made, warm, loops, total,
          per_call_samples, results, exc, log, cal, fit, hset, cqueue

vars == <<cfg, n_values, clock, pc, i, x, made, warm, loops, total,
          per_call_samples, results, exc, log, cal, fit, hset, cqueue>>

\* The state of a run of benchmark_series; cal and fit hold the direct calls
\* of _choose_loops (on a deterministic callable) and of the fitter.
bench_vars == <<cfg, n_values, clock, pc, i, x, made, warm, loops, total,
                per_call_samples, results, exc, log>>

(***************************************************************************)
(* Bounds of the model.                                                    *)
(***************************************************************************)
MaxSizes == 2

Sizes == {0, 1}
Durations == {0, 2}
WarmupChoices == {-1, 0, 1}
RepeatChoices == {0, 1, 2}
MinTimeChoices == {0, 1, 2}
MaxLoopsChoices == {-1, 0, 1, 3, 4}

RECURSIVE SeqsUpTo(_, _)
SeqsUpTo(S, n) ==
    IF n = 0 THEN {<< >>}
    ELSE LET shorter == SeqsUpTo(S, n - 1)
         IN shorter \cup {Append(s, e) : s \in {t \in shorter : Len(t) = n - 1}, e \in S}

(***************************************************************************)
(* bench.py                                                                *)
(***************************************************************************)
Eps == 1

BenchConfig == [warmup_runs : WarmupChoices, repeats : RepeatChoices,
                min_time_per_repeat : MinTimeChoices, max_loops : MaxLoopsChoices,
                collect_distribution : BOOLEAN]

Max(a, b) == IF a >= b THEN a ELSE b
Min(a, b) == IF a <= b THEN a ELSE b

\* An Optional value: <<>> is None, <<v>> is the value v.
None == << >>
Some(v) == <<v>>

\* "if total <= 0: total = 1e-12"
ClampTotal(t) == IF t <= 0 THEN Eps ELSE t

\* A fast path that wants the threshold exceeded.
FastPathStrict(t, c) == t > c.min_time_per_repeat

\* "if total >= cfg.min_time_per_repeat: return 1": the fast path's condition.
FastPath(t, c) == t >= c.min_time_per_repeat

\* A loop that stops one time unit short of the threshold.
KeepDoublingStopsEarly(t, l, c) == t + 1 < c.min_time_per_repeat /\ l < c.max_loops

\* A loop that lets loops reach twice the cap.
KeepDoublingPastCap(t, l, c) == t < c.min_time_per_repeat /\ l < 2 * c.max_loops

\* "while total < cfg.min_time_per_repeat and loops < cfg.max_loops"
KeepDoubling(t, l, c) == t < c.min_time_per_repeat /\ l < c.max_loops

\* "loops *= 2"
DoubleLoopsByAdding(l) == l + 2
DoubleLoopsByOne(l) == l + 1
DoubleLoops(l) == 2 * l

\* "return min(loops, cfg.max_loops)"
CappedLoops(l, c) == Min(l, c.max_loops)

\* Exact fractions for the per-call samples: total / loops.
Frac(n, d) == [num |-> n, den |-> d]
FracLess(p, q) ==
    IF p.den * q.den > 0 THEN p.num * q.den < q.num * p.den
    ELSE p.num * q.den > q.num * p.den
FracEq(p, q) == p.num * q.den = q.num * p.den
FracLeq(p, q) == FracLess(p, q) \/ FracEq(p, q)

\* sorted(data), as statistics.median sorts its data (a stable insertion sort).
RECURSIVE InsertSorted(_, _)
InsertSorted(s, e) ==
    IF s = << >> THEN <<e>>
    ELSE IF FracLess(e, Head(s)) THEN <<e>> \o s
    ELSE <<Head(s)>> \o InsertSorted(Tail(s), e)

RECURSIVE SortSamples(_)
SortSamples(s) ==
    IF s = << >> THEN << >>
    ELSE InsertSorted(SortSamples(SubSeq(s, 1, Len(s) - 1)), s[Len(s)])

MedianUnsorted(s) == s[(Len(s) \div 2) + 1]

\* statistics.median: the middle element, or the mean of the two middle ones.
Median(s) ==
    LET d == SortSamples(s)
        n == Len(d)
    IN IF n % 2 = 1 THEN d[(n \div 2) + 1]
       ELSE Frac(d[n \div 2].num * d[(n \div 2) + 1].den
                   + d[(n \div 2) + 1].num * d[n \div 2].den,
                 2 * d[n \div 2].den * d[(n \div 2) + 1].den)

\* A result that keeps the samples whatever collect_distribution is.
BenchResultKeepingSamples(n, c, l, s) ==
    [n |-> n, seconds |-> Median(s), loops |-> l, samples |-> Some(s)]

\* BenchResult(n=n, seconds=median, loops=loops, samples=...)
BenchResult(n, c, l, s) ==
    [n |-> n, seconds |-> Median(s), loops |-> l,
     samples |-> IF c.collect_distribution THEN Some(s) ELSE None]

\* What happens in the caller when the code under it raises: nothing in
\* bench.py catches, so the exception leaves benchmark_series.
PropagateSkipsSize(e) == [pc |-> "series", exc |-> "none"]
Propagate(e) == [pc |-> "raised", exc |-> e]

\* A thunk that keeps calling func on the input object of the first size.
EventOnFirstInput(kind, k, ok) == [ev |-> kind, i |-> i, x |-> 1, k |-> k, ok |-> ok]

\* What the log keeps of a call of thunk, or of a timed batch of k calls.
Event(kind, k, ok) == [ev |-> kind, i |-> i, x |-> x, k |-> k, ok |-> ok]

\* No direct call of a pure function is under way.
NoCall == [phase |-> "idle"]

Init ==
    /\ cfg \in BenchConfig
    /\ n_values \in SeqsUpTo(Sizes, MaxSizes)
    /\ clock = Durations
    /\ pc = "series"
    /\ i = 0
    /\ x = 0
    /\ made = 0
    /\ warm = 0
    /\ loops = 0
    /\ total = 0
    /\ per_call_samples = << >>
    /\ results = << >>
    /\ exc = "none"
    /\ log = << >>
    /\ cal = NoCall
    /\ fit = NoCall
    /\ hset = NoCall
    /\ cqueue = NoCall

\* benchmark_series: "for n in n_values:" takes the next size.
SeriesNext ==
    /\ pc = "series"
    /\ i < Len(n_values)
    /\ i' = i + 1
    /\ pc' = "make_input"
    /\ UNCHANGED <<cfg, n_values, clock, x, made, warm, loops, total,
                   per_call_samples, results, exc, log, cal, fit, hset, cqueue>>

\* benchmark_series: "return results".
SeriesReturn ==
    /\ pc = "series"
    /\ i >= Len(n_values)
    /\ pc' = "done"
    /\ UNCHANGED <<cfg, n_values, clock, i, x, made, warm, loops, total,
                   per_call_samples, results, exc, log, cal, fit, hset, cqueue>>

\* The exception e leaves benchmark_series.
Raise(e) ==
    /\ pc' = Propagate(e).pc
    /\ exc' = Propagate(e).exc

\* benchmark_one_n: "x = make_input(n)" returns the input object.
MakeInput ==
    /\ pc = "make_input"
    /\ made' = made + 1
    /\ x' = made + 1
    /\ warm' = 0
    /\ pc' = "warmup"
    /\ log' = Append(log, [ev |-> "make", i |-> i, x |-> made + 1, k |-> 1, ok |-> TRUE])
    /\ UNCHANGED <<cfg, n_values, clock, i, loops, total, per_call_samples, results, exc, cal, fit, hset, cqueue>>

\* benchmark_one_n: "x = make_input(n)" raises.
MakeInputRaises ==
    /\ pc = "make_input"
    /\ made' = made + 1
    /\ Raise("FactoryError")
    /\ log' = Append(log, [ev |-> "make", i |-> i, x |-> 0, k |-> 1, ok |-> FALSE])
    /\ UNCHANGED <<cfg, n_values, clock, i, x, warm, loops, total, per_call_samples, results, cal, fit, hset, cqueue>>

\* benchmark_one_n: one pass of "for _ in range(max(0, cfg.warmup_runs)): thunk()".
WarmupCall ==
    /\ pc = "warmup"
    /\ warm < Max(0, cfg.warmup_runs)
    /\ warm' = warm + 1
    /\ log' = Append(log, Event("warm", 1, TRUE))
    /\ UNCHANGED <<cfg, n_values, clock, pc, i, x, made, loops, total,
                   per_call_samples, results, exc, cal, fit, hset, cqueue>>

\* benchmark_one_n: thunk() raises during warmup.
WarmupRaises ==
    /\ pc = "warmup"
    /\ warm < Max(0, cfg.warmup_runs)
    /\ Raise("CallableError")
    /\ log' = Append(log, Event("warm", 1, FALSE))
    /\ UNCHANGED <<cfg, n_values, clock, i, x, made, warm, loops, total,
                   per_call_samples, results, cal, fit, hset, cqueue>>

\* benchmark_one_n: the warmup loop is over, "loops = _choose_loops(thunk, cfg)" starts.
WarmupDone ==
    /\ pc = "warmup"
    /\ warm >= Max(0, cfg.warmup_runs)
    /\ pc' = "calibrate"
    /\ UNCHANGED <<cfg, n_values, clock, i, x, made, warm, loops, total,
                   per_call_samples, results, exc, log, cal, fit, hset, cqueue>>

\* _choose_loops: "loops = 1; total = _time_call(func, loops)", the clamp, and
\* the fast path "if total >= cfg.min_time_per_repeat: return 1".
ChooseLoopsFirst ==
    /\ pc = "calibrate"
    /\ \E d \in clock :
         /\ log' = Append(log, Event("cal", 1, TRUE))
         /\ IF FastPath(ClampTotal(d), cfg)
            THEN /\ loops' = 1
                 /\ total' = 0
                 /\ per_call_samples' = << >>
                 /\ pc' = "record"
            ELSE /\ loops' = 1
                 /\ total' = ClampTotal(d)
                 /\ per_call_samples' = per_call_samples
                 /\ pc' = "doubling"
    /\ UNCHANGED <<cfg, n_values, clock, i, x, made, warm, results, exc, cal, fit, hset, cqueue>>

\* _choose_loops: the first _time_call raises.
ChooseLoopsFirstRaises ==
    /\ pc = "calibrate"
    /\ Raise("CallableError")
    /\ log' = Append(log, Event("cal", 1, FALSE))
    /\ UNCHANGED <<cfg, n_values, clock, i, x, made, warm, loops, total,
                   per_call_samples, results, cal, fit, hset, cqueue>>

\* _choose_loops: one pass of the while loop: "loops *= 2",
\* "total = _time_call(func, loops)" and the clamp.
ChooseLoopsDouble ==
    /\ pc = "doubling"
    /\ KeepDoubling(total, loops, cfg)
    /\ loops' = DoubleLoops(loops)
    /\ \E d \in clock : total' = ClampTotal(d)
    /\ log' = Append(log, Event("cal", DoubleLoops(loops), TRUE))
    /\ UNCHANGED <<cfg, n_values, clock, pc, i, x, made, warm,
                   per_call_samples, results, exc, cal, fit, hset, cqueue>>

\* _choose_loops: _time_call raises inside the while loop.
ChooseLoopsDoubleRaises ==
    /\ pc = "doubling"
    /\ KeepDoubling(total, loops, cfg)
    /\ loops' = DoubleLoops(loops)
    /\ Raise("CallableError")
    /\ log' = Append(log, Event("cal", DoubleLoops(loops), FALSE))
    /\ UNCHANGED <<cfg, n_values, clock, i, x, made, warm, total,
                   per_call_samples, results, cal, fit, hset, cqueue>>

\* _choose_loops: the while loop ends, "return min(loops, cfg.max_loops)".
ChooseLoopsReturn ==
    /\ pc = "doubling"
    /\ ~KeepDoubling(total, loops, cfg)
    /\ loops' = CappedLoops(loops, cfg)
    /\ total' = 0
    /\ per_call_samples' = << >>
    /\ pc' = "record"
    /\ UNCHANGED <<cfg, n_values, clock, i, x, made, warm, results, exc, log, cal, fit, hset, cqueue>>

\* benchmark_one_n: one pass of "for _ in range(max(1, cfg.repeats))":
\* "total = _time_call(thunk, loops); per_call = total / loops; append".
RecordBatch ==
    /\ pc = "record"
    /\ Len(per_call_samples) < Max(1, cfg.repeats)
    /\ loops # 0
    /\ \E d \in clock : per_call_samples' = Append(per_call_samples, Frac(d, loops))
    /\ log' = Append(log, Event("rec", loops, TRUE))
    /\ UNCHANGED <<cfg, n_values, clock, pc, i, x, made, warm, loops, total, results, exc, cal, fit, hset, cqueue>>

\* benchmark_one_n: thunk() raises inside a recorded batch (a batch of
\* range(loops) with loops < 1 never calls it).
RecordRaises ==
    /\ pc = "record"
    /\ Len(per_call_samples) < Max(1, cfg.repeats)
    /\ loops >= 1
    /\ Raise("CallableError")
    /\ log' = Append(log, Event("rec", loops, FALSE))
    /\ UNCHANGED <<cfg, n_values, clock, i, x, made, warm, loops, total,
                   per_call_samples, results, cal, fit, hset, cqueue>>

\* benchmark_one_n: "per_call = total / loops" with loops = 0.
RecordDivZero ==
    /\ pc = "record"
    /\ Len(per_call_samples) < Max(1, cfg.repeats)
    /\ loops = 0
    /\ Raise("ZeroDivisionError")
    /\ log' = Append(log, Event("rec", loops, TRUE))
    /\ UNCHANGED <<cfg, n_values, clock, i, x, made, warm, loops, total,
                   per_call_samples, results, cal, fit, hset, cqueue>>

\* benchmark_one_n: the median and "return BenchResult(...)";
\* benchmark_series: "results.append(...)".
Finish ==
    /\ pc = "record"
    /\ Len(per_call_samples) >= Max(1, cfg.repeats)
    /\ results' = Append(results, BenchResult(n_values[i], cfg, loops, per_call_samples))
    /\ per_call_samples' = << >>
    /\ pc' = "series"
    /\ UNCHANGED <<cfg, n_values, clock, i, x, made, warm, loops, total, exc, log, cal, fit, hset, cqueue>>

Next ==
    \/ SeriesNext
    \/ SeriesReturn
    \/ MakeInput
    \/ MakeInputRaises
    \/ WarmupCall
    \/ WarmupRaises
    \/ WarmupDone
    \/ ChooseLoopsFirst
    \/ ChooseLoopsFirstRaises
    \/ ChooseLoopsDouble
    \/ ChooseLoopsDoubleRaises
    \/ ChooseLoopsReturn
    \/ RecordBatch
    \/ RecordRaises
    \/ RecordDivZero
    \/ Finish

Spec == Init /\ [][Next]_vars

\* The interpreter keeps running the program: a statement that can be
\* executed is executed.
LiveSpec == Spec /\ WF_vars(Next)

(***************************************************************************)
(* _choose_loops called directly on a deterministic callable: a batch of L *)
(* invocations always measures func[L].  The same run is made with two     *)
(* values of min_time_per_repeat.                                          *)
(***************************************************************************)
MaxDoublings == 3

RECURSIVE Pow2(_)
Pow2(k) == IF k = 0 THEN 1 ELSE 2 * Pow2(k - 1)

BatchSizes == {Pow2(k) : k \in 0 .. MaxDoublings}
CalMaxLoops == -1 .. Pow2(MaxDoublings)
CalMinTimes == {0, 1, 2, 3}

\* _choose_loops: the while loop, from loop count l with measured total t.
RECURSIVE choose_loops_while(_, _, _, _)
choose_loops_while(func, l, t, c) ==
    IF KeepDoubling(t, l, c)
    THEN choose_loops_while(func, DoubleLoops(l), ClampTotal(func[DoubleLoops(l)]), c)
    ELSE CappedLoops(l, c)

\* _choose_loops(func, cfg) for a callable whose batch of L takes func[L].
choose_loops(func, c) ==
    IF FastPath(ClampTotal(func[1]), c) THEN 1
    ELSE choose_loops_while(func, 1, ClampTotal(func[1]), c)

\* The batches _choose_loops times, in order, each by its loop count.
RECURSIVE timed_while(_, _, _, _, _)
timed_while(func, l, t, c, calls) ==
    IF KeepDoubling(t, l, c)
    THEN timed_while(func, DoubleLoops(l), ClampTotal(func[DoubleLoops(l)]), c,
                     Append(calls, DoubleLoops(l)))
    ELSE calls

timed_batches(func, c) ==
    IF FastPath(ClampTotal(func[1]), c) THEN <<1>>
    ELSE timed_while(func, 1, ClampTotal(func[1]), c, <<1>>)

CalConfig(m, cap) ==
    [warmup_runs |-> 0, repeats |-> 1, min_time_per_repeat |-> m,
     max_loops |-> cap, collect_distribution |-> FALSE]

CalInit ==
    /\ cal \in [phase : {"input"}, func : [BatchSizes -> Durations],
                 m1 : CalMinTimes, m2 : CalMinTimes, max_loops : CalMaxLoops,
                 loops1 : {0}, loops2 : {0}, calls1 : {<< >>}, calls2 : {<< >>}]
    /\ cal.m1 <= cal.m2
    /\ cfg = CalConfig(0, 1)
    /\ n_values = << >>
    /\ clock = {}
    /\ pc = "idle"
    /\ i = 0
    /\ x = 0
    /\ made = 0
    /\ warm = 0
    /\ loops = 0
    /\ total = 0
    /\ per_call_samples = << >>
    /\ results = << >>
    /\ exc = "none"
    /\ log = << >>
    /\ fit = NoCall
    /\ hset = NoCall
    /\ cqueue = NoCall

\* _choose_loops(func, cfg) with min_time_per_repeat = m1.
CalibrateLow ==
    /\ cal.phase = "input"
    /\ cal' = [cal EXCEPT !.phase = "low",
                          !.loops1 = choose_loops(cal.func, CalConfig(cal.m1, cal.max_loops)),
                          !.calls1 = timed_batches(cal.func, CalConfig(cal.m1, cal.max_loops))]
    /\ UNCHANGED <<bench_vars, fit, hset, cqueue>>

\* _choose_loops(func, cfg) with min_time_per_repeat = m2, same func and max_loops.
CalibrateHigh ==
    /\ cal.phase = "low"
    /\ cal' = [cal EXCEPT !.phase = "both",
                          !.loops2 = choose_loops(cal.func, CalConfig(cal.m2, cal.max_loops)),
                          !.calls2 = timed_batches(cal.func, CalConfig(cal.m2, cal.max_loops))]
    /\ UNCHANGED <<bench_vars, fit, hset, cqueue>>

CalNext ==
    \/ CalibrateLow
    \/ CalibrateHigh

CalSpec == CalInit /\ [][CalNext]_vars

(***************************************************************************)
(* benchmark_one_n with repeats = 5 and a clock that reports, beside the   *)
(* ordinary durations, durations a hundred times as long.                  *)
(***************************************************************************)
MedianConfig == [warmup_runs : {0, 1}, repeats : {5}, min_time_per_repeat : {0, 3},
                 max_loops : {0, 2}, collect_distribution : {TRUE}]
MedianDurations == {0, 1, 2, 100, 200}

MedianInit ==
    /\ cfg \in MedianConfig
    /\ n_values = <<1>>
    /\ clock = MedianDurations
    /\ pc = "series"
    /\ i = 0
    /\ x = 0
    /\ made = 0
    /\ warm = 0
    /\ loops = 0
    /\ total = 0
    /\ per_call_samples = << >>
    /\ results = << >>
    /\ exc = "none"
    /\ log = << >>
    /\ cal = NoCall
    /\ fit = NoCall
    /\ hset = NoCall
    /\ cqueue = NoCall

MedianSpec == MedianInit /\ [][Next]_vars

(***************************************************************************)
(* growth_models.py                                                        *)
(*                                                                         *)
(* The floats of the fitter are modelled in two ways.  Where fit.arith is   *)
(* "double" they are IEEE doubles and every operation rounds, as Python    *)
(* does it.  Where it is "exact" they are the real numbers the floats      *)
(* stand for, exact fractions n/d of integers of any size, and rounding is *)
(* left out.  An integer of a fraction is a                                *)
(* sequence of limbs, least significant first; after BNorm the limbs are   *)
(* digits in 0 .. Base-1, but for a top limb of -1 in a negative number.   *)
(* Durations are counted in units of 1e-16 s, so that the 1e-30 of         *)
(* _r2_and_rmse, in s^2, is SsEps units; sizes and features have no unit,  *)
(* and the 1e-30 of _ols_fit_affine is 1/10^EpsExponent.                   *)
(***************************************************************************)
Base == 10 * 100
SsEps == 100
EpsExponent == 30
UnitExponent == 16

\* The floats of the call under way are doubles.
Doubles == fit.arith = "double"

(***************************************************************************)
(* Python floats: IEEE 754 binary64, every operation rounded to the        *)
(* nearest double, ties to even.  A double is s * m * 2^e with s the sign, *)
(* m a natural number of exactly 53 bits and e an integer; 0.0 has no      *)
(* mantissa.  A natural number is a sequence of limbs in 0 .. Radix-1,     *)
(* least significant first, the top limb not 0.  Overflow, subnormals,     *)
(* infinities, NaN and the sign of zero are not modelled.                  *)
(***************************************************************************)
Radix == 64 * 64
RadixBits == 12
MantissaBits == 53

RECURSIVE NTrim(_)
NTrim(p) ==
    IF p = << >> THEN p
    ELSE IF p[Len(p)] = 0 THEN NTrim(SubSeq(p, 1, Len(p) - 1))
    ELSE p

RECURSIVE NCarry(_, _, _)
NCarry(s, k, cy) ==
    IF k > Len(s)
    THEN IF cy = 0 THEN << >> ELSE <<cy % Radix>> \o NCarry(s, k, cy \div Radix)
    ELSE <<(s[k] + cy) % Radix>> \o NCarry(s, k + 1, (s[k] + cy) \div Radix)

NNorm(s) == NTrim(NCarry(s, 1, 0))
NLimb(p, k) == IF k <= Len(p) THEN p[k] ELSE 0
NInt(v) == NNorm(<<v>>)
NAdd(p, q) == NNorm([k \in 1 .. Max(Len(p), Len(q)) |-> NLimb(p, k) + NLimb(q, k)])
\* p - q for p >= q
NSub(p, q) == NNorm([k \in 1 .. Len(p) |-> p[k] - NLimb(q, k)])

RECURSIVE NConv(_, _, _, _)
NConv(p, q, k, j) ==
    IF j > Len(p) \/ j > k THEN 0
    ELSE (IF k - j + 1 <= Len(q) THEN p[j] * q[k - j + 1] ELSE 0) + NConv(p, q, k, j + 1)

NMul(p, q) ==
    IF p = << >> \/ q = << >> THEN << >>
    ELSE NNorm([k \in 1 .. (Len(p) + Len(q) - 1) |-> NConv(p, q, k, 1)])

\* -1, 0 or 1 as p is below, equal to or above q, from limb k downwards.
RECURSIVE NCmpFrom(_, _, _)
NCmpFrom(p, q, k) ==
    IF k = 0 THEN 0
    ELSE IF p[k] < q[k] THEN -1
    ELSE IF p[k] > q[k] THEN 1
    ELSE NCmpFrom(p, q, k - 1)

NCmp(p, q) ==
    IF Len(p) < Len(q) THEN -1
    ELSE IF Len(p) > Len(q) THEN 1
    ELSE NCmpFrom(p, q, Len(p))

RECURSIVE BitsOf(_)
BitsOf(v) == IF v = 0 THEN 0 ELSE 1 + BitsOf(v \div 2)

\* The number of bits of p.
NBits(p) == IF p = << >> THEN 0 ELSE RadixBits * (Len(p) - 1) + BitsOf(p[Len(p)])

\* p * 2^k and floor(p / 2^k)
NShl(p, k) ==
    IF p = << >> THEN p
    ELSE [j \in 1 .. (k \div RadixBits) |-> 0]
           \o NNorm([j \in 1 .. Len(p) |-> p[j] * Pow2(k % RadixBits)])
NShrBy(p, w, c) ==
    IF w >= Len(p) THEN << >>
    ELSE NTrim([j \in 1 .. Len(p) - w |->
                  (p[j + w] \div c) + (NLimb(p, j + w + 1) % c) * (Radix \div c)])
NShr(p, k) == NShrBy(p, k \div RadixBits, Pow2(k % RadixBits))

NBit(p, k) == (NLimb(p, (k \div RadixBits) + 1) \div Pow2(k % RadixBits)) % 2
NOdd(p) == NLimb(p, 1) % 2 = 1
\* The low k bits of p are all 0.
NLowZero(p, k) == NShl(NShr(p, k), k) = p

RECURSIVE NPow10(_)
NPow10(k) == IF k = 0 THEN <<1>> ELSE NMul(<<10>>, NPow10(k - 1))

Double(s, m, e) == [s |-> s, m |-> m, e |-> e]
DZero == Double(1, << >>, 0)
DIsZero(a) == a.m = << >>

\* A mantissa of 54 bits after the round-up is 2^53.
DCarryOut(s, q, e) ==
    IF NBits(q) > MantissaBits THEN Double(s, NShr(q, 1), e + 1) ELSE Double(s, q, e)

DRoundCut(s, q, e, up) == IF up THEN DCarryOut(s, NAdd(q, <<1>>), e) ELSE Double(s, q, e)

\* The bits of mt below its top 53 are cut: up when they are more than half
\* of the last kept place, or half of it and the kept mantissa is odd.
DRoundBits(s, mt, e, cut) ==
    IF cut <= 0 THEN Double(s, NShl(mt, -cut), e + cut)
    ELSE DRoundCut(s, NShr(mt, cut), e + cut,
                   /\ NBit(mt, cut - 1) = 1
                   /\ (~NLowZero(mt, cut - 1) \/ NBit(mt, cut) = 1))

\* The double nearest to s * mt * 2^e, for a natural number mt of any size.
DRound(s, mt, e) ==
    IF mt = << >> THEN DZero ELSE DRoundBits(s, mt, e, NBits(mt) - MantissaBits)

DSigned(s1, m1, s2, m2, e) ==
    IF s1 = s2 THEN DRound(s1, NAdd(m1, m2), e)
    ELSE IF NCmp(m1, m2) >= 0 THEN DRound(s1, NSub(m1, m2), e)
    ELSE DRound(s2, NSub(m2, m1), e)

\* hi + lo for hi.e >= lo.e; a lo below a quarter of the last place of hi
\* does not change hi.
DAddAligned(hi, lo) ==
    IF hi.e - lo.e > MantissaBits + 3 THEN hi
    ELSE DSigned(hi.s, NShl(hi.m, hi.e - lo.e), lo.s, lo.m, lo.e)

DAdd(a, b) ==
    IF DIsZero(a) THEN b
    ELSE IF DIsZero(b) THEN a
    ELSE IF a.e >= b.e THEN DAddAligned(a, b)
    ELSE DAddAligned(b, a)

DNeg(a) == IF DIsZero(a) THEN a ELSE Double(-a.s, a.m, a.e)
DSub(a, b) == DAdd(a, DNeg(b))
DAbs(a) == Double(1, a.m, a.e)

DMul(a, b) ==
    IF DIsZero(a) \/ DIsZero(b) THEN DZero
    ELSE DRound(a.s * b.s, NMul(a.m, b.m), a.e + b.e)

\* The first k bits of r / d for r < 2 d, and whether anything is left.
\* Long division bit by bit: [r, q] is the remainder left, shifted, and the
\* quotient bits found.  k steps are made as two halves, one after the
\* other.
DivStep(st, d) ==
    IF NCmp(st.r, d) >= 0
    THEN [r |-> NShl(NSub(st.r, d), 1), q |-> NAdd(NShl(st.q, 1), <<1>>)]
    ELSE [r |-> NShl(st.r, 1), q |-> NShl(st.q, 1)]
RECURSIVE DivBits(_, _, _)
DivBits(st, d, k) ==
    IF st.r = << >> THEN [r |-> << >>, q |-> NShl(st.q, k)]
    ELSE IF k = 1 THEN DivStep(st, d)
    ELSE DivBits(DivBits(st, d, k \div 2), d, k - (k \div 2))

\* The quotient bits with one more bit for what is left.
DSticky(qr) == IF qr.r # << >> THEN NAdd(NShl(qr.q, 1), <<1>>) ELSE NShl(qr.q, 1)
GuardBits == MantissaBits + 4

DRatioBits(s, nm, dn, e, bn, bd) ==
    DRound(s, DSticky(DivBits([r |-> NShl(nm, Max(0, bd - bn)), q |-> << >>],
                              NShl(dn, Max(0, bn - bd)), GuardBits)),
           e + (bn - bd) - GuardBits)

\* The double nearest to s * (nm / dn) * 2^e, for natural numbers nm, dn > 0.
DRatio(s, nm, dn, e) ==
    IF nm = << >> THEN DZero ELSE DRatioBits(s, nm, dn, e, NBits(nm), NBits(dn))

DDiv(a, b) == IF DIsZero(a) THEN DZero ELSE DRatio(a.s * b.s, a.m, b.m, a.e - b.e)

\* -1, 0 or 1 as a is below, equal to or above b.
DCmpAbs(a, b) ==
    IF DIsZero(a) THEN (IF DIsZero(b) THEN 0 ELSE -1)
    ELSE IF DIsZero(b) THEN 1
    ELSE IF a.e < b.e THEN -1
    ELSE IF a.e > b.e THEN 1
    ELSE NCmp(a.m, b.m)
DSignOf(a) == IF DIsZero(a) THEN 0 ELSE a.s
DCmp(a, b) ==
    IF DSignOf(a) < DSignOf(b) THEN -1
    ELSE IF DSignOf(a) > DSignOf(b) THEN 1
    ELSE DSignOf(a) * DCmpAbs(a, b)
DLess(a, b) == DCmp(a, b) < 0
DEq(a, b) == DCmp(a, b) = 0

\* float(k) for an integer k
DInt(k) == IF k < 0 THEN DRound(-1, NInt(-k), 0) ELSE DRound(1, NInt(k), 0)

\* The square root, bit by bit: r is what is left of the radicand, q the
\* root so far, bit a power of 4.  k steps are made as two halves.
RootStep(st) ==
    IF NCmp(st.r, NAdd(st.q, st.bit)) >= 0
    THEN [r |-> NSub(st.r, NAdd(st.q, st.bit)), q |-> NAdd(NShr(st.q, 1), st.bit),
          bit |-> NShr(st.bit, 2)]
    ELSE [r |-> st.r, q |-> NShr(st.q, 1), bit |-> NShr(st.bit, 2)]
RECURSIVE RootBits(_, _)
RootBits(st, k) ==
    IF st.bit = << >> THEN st
    ELSE IF k = 1 THEN RootStep(st)
    ELSE RootBits(RootBits(st, k \div 2), k - (k \div 2))

\* The radicand a.m * 2^a.e as mt * 2^(2 h), with mt wide enough for a root
\* of GuardBits - 1 bits or more.
DSqrtSteps(mt, h, top) ==
    DRound(1, DSticky(RootBits([r |-> mt, q |-> << >>, bit |-> NShl(<<1>>, 2 * top)], top + 1)),
           h - 1)
DSqrtWide(mt, h) == DSqrtSteps(mt, h, (NBits(mt) - 1) \div 2)
DSqrt(a) ==
    IF DIsZero(a) THEN DZero
    ELSE DSqrtWide(NShl(a.m, GuardBits + 1 + (a.e % 2)),
                   (a.e - (GuardBits + 1) - (a.e % 2)) \div 2)


RECURSIVE BCarry(_, _, _)
BCarry(s, k, cy) ==
    IF k > Len(s)
    THEN IF cy = 0 THEN << >>
         ELSE IF cy >= Base \/ cy < -1 THEN <<cy % Base>> \o BCarry(s, k, cy \div Base)
         ELSE <<cy>>
    ELSE <<(s[k] + cy) % Base>> \o BCarry(s, k + 1, (s[k] + cy) \div Base)

RECURSIVE BTrim(_)
BTrim(s) ==
    IF s = << >> THEN s
    ELSE IF s[Len(s)] = 0 THEN BTrim(SubSeq(s, 1, Len(s) - 1))
    ELSE IF Len(s) >= 2 /\ s[Len(s)] = -1 /\ s[Len(s) - 1] = Base - 1
         THEN BTrim(SubSeq(s, 1, Len(s) - 2) \o <<-1>>)
    ELSE s

BNorm(s) == BTrim(BCarry(s, 1, 0))
Big(n) == BNorm(<<n>>)
BLimb(s, k) == IF k <= Len(s) THEN s[k] ELSE 0
BAdd(p, q) == BNorm([k \in 1 .. Max(Len(p), Len(q)) |-> BLimb(p, k) + BLimb(q, k)])
BSub(p, q) == BNorm([k \in 1 .. Max(Len(p), Len(q)) |-> BLimb(p, k) - BLimb(q, k)])
BNeg(p) == BNorm([k \in 1 .. Len(p) |-> -p[k]])

RECURSIVE BConv(_, _, _, _)
BConv(p, q, k, j) ==
    IF j > Len(p) \/ j > k THEN 0
    ELSE (IF k - j + 1 <= Len(q) THEN p[j] * q[k - j + 1] ELSE 0) + BConv(p, q, k, j + 1)

BMul(p, q) ==
    IF p = << >> \/ q = << >> THEN << >>
    ELSE BNorm([k \in 1 .. (Len(p) + Len(q) - 1) |-> BConv(p, q, k, 1)])

BSign(p) == IF p = << >> THEN 0 ELSE IF p[Len(p)] < 0 THEN -1 ELSE 1
BLess(p, q) == BSign(BSub(p, q)) < 0
BEq(p, q) == BSign(BSub(p, q)) = 0

RECURSIVE BPow10(_)
BPow10(k) == IF k = 0 THEN Big(1) ELSE BMul(Big(10), BPow10(k - 1))

\* Fractions n/d with d > 0.
Q(n, d) == [n |-> n, d |-> d]
QInt(k) == IF Doubles THEN DInt(k) ELSE Q(Big(k), Big(1))

\* The same fraction with the common factors Base of n and d cancelled,
\* and 0 written 0/1.
RECURSIVE QShift(_, _)
QShift(n, d) ==
    IF n = << >> THEN Q(n, Big(1))
    ELSE IF d # << >> /\ n[1] = 0 /\ d[1] = 0 THEN QShift(Tail(n), Tail(d))
    ELSE Q(n, d)
QAdd(p, q) ==
    IF Doubles THEN DAdd(p, q)
    ELSE IF p.d = q.d THEN QShift(BAdd(p.n, q.n), p.d)
    ELSE QShift(BAdd(BMul(p.n, q.d), BMul(q.n, p.d)), BMul(p.d, q.d))
QNeg(p) == IF Doubles THEN DNeg(p) ELSE Q(BNeg(p.n), p.d)
QSub(p, q) == QAdd(p, QNeg(q))
QMul(p, q) == IF Doubles THEN DMul(p, q) ELSE QShift(BMul(p.n, q.n), BMul(p.d, q.d))
\* p / q for q # 0; a common denominator cancels.
QDivExact(p, q) ==
    LET n == IF p.d = q.d THEN p.n ELSE BMul(p.n, q.d)
        d == IF p.d = q.d THEN q.n ELSE BMul(p.d, q.n)
    IN IF BSign(d) < 0 THEN QShift(BNeg(n), BNeg(d)) ELSE QShift(n, d)
QDiv(p, q) == IF Doubles THEN DDiv(p, q) ELSE QDivExact(p, q)
QAbs(p) == IF Doubles THEN DAbs(p) ELSE IF BSign(p.n) < 0 THEN QNeg(p) ELSE p
QLess(p, q) == IF Doubles THEN DLess(p, q) ELSE BLess(BMul(p.n, q.d), BMul(q.n, p.d))
QEq(p, q) == IF Doubles THEN DEq(p, q) ELSE BEq(BMul(p.n, q.d), BMul(q.n, p.d))

\* math.sqrt; with exact fractions the radicand stands for its root.
QSqrt(p) == IF Doubles THEN DSqrt(p) ELSE p
QLeq(p, q) == ~QLess(q, p)

RECURSIVE QSum(_)
QSum(s) == IF s = << >> THEN QInt(0) ELSE QAdd(QSum(SubSeq(s, 1, Len(s) - 1)), s[Len(s)])

\* math.log2(5.0) = 2.321928094887362, cut to 6 decimals.
Log2Of5 == Q(Big(2321928), BPow10(6))

\* math.log2(6.0) = 0x1.4ae00d1cfdeb4p+1
Log2Of6 == Double(1, <<3764, 3325, 209, 2784, 20>>, -51)

\* math.log2 of 10.0, 20.0, 40.0, 80.0 and 160.0, as doubles:
\* 3.321928094887362 and 4.321928094887363 .. 7.321928094887363.
Log2Doubles ==
    (10 :> Double(1, <<881, 1946, 3849, 2356, 26>>, -51))
        @@ (20 :> Double(1, <<441, 3021, 1924, 1178, 17>>, -50))
        @@ (40 :> Double(1, <<441, 3021, 1924, 1178, 21>>, -50))
        @@ (80 :> Double(1, <<441, 3021, 1924, 1178, 25>>, -50))
        @@ (160 :> Double(1, <<441, 3021, 1924, 1178, 29>>, -50))

\* math.log2 on the sizes of the model, which are 2^k and 5 * 2^k, and 6
\* where the floats are doubles (the logarithm of 2^k is exact).
RECURSIVE log2(_)
log2(n) ==
    IF n <= 1 THEN QInt(0)
    ELSE IF Doubles /\ n \in DOMAIN Log2Doubles THEN Log2Doubles[n]
    ELSE IF n = 5 THEN Log2Of5
    ELSE IF n = 6 THEN Log2Of6
    ELSE QAdd(QInt(1), log2(n \div 2))

\* A logarithm without the floor of 2.
unsafe_log2(n) == log2(n)

\* _safe_log2(n): math.log2(max(2.0, float(n)))
safe_log2(n) == log2(Max(2, n))
\* A constant basis that varies with n.
f_const_as_n(n) == QInt(n)
f_const(n) == QInt(1)
f_log_n(n) == safe_log2(n)
\* The linear basis taken for the logarithmic one.
f_n_as_log(n) == safe_log2(n)

f_n(n) == QInt(n)
f_n_log_n(n) == QMul(QInt(n), safe_log2(n))
f_n2(n) == QInt(n * n)
f_n3(n) == QInt(n * n * n)

Model(name, f) == [name |-> name, f |-> f]

\* model.f(n): the basis function a Model holds, called.
ModelF(m, n) ==
    CASE m.f = "f_const" -> f_const(n)
      [] m.f = "f_log_n" -> f_log_n(n)
      [] m.f = "f_n" -> f_n(n)
      [] m.f = "f_n_log_n" -> f_n_log_n(n)
      [] m.f = "f_n2" -> f_n2(n)
      [] m.f = "f_n3" -> f_n3(n)

DEFAULT_MODELS ==
    << Model("1", "f_const"), Model("log n", "f_log_n"), Model("n", "f_n"),
       Model("n log n", "f_n_log_n"), Model("n^2", "f_n2"), Model("n^3", "f_n3") >>

\* The two epsilons: abs(sxx) < 1e-30 and abs(ss_tot) < 1e-30, ss_res < 1e-30.
SxxEps == IF Doubles THEN DRatio(1, <<1>>, NPow10(EpsExponent), 0) ELSE Q(Big(1), BPow10(EpsExponent))
\* A fitter without the test for the degenerate x.
SxxNeverTiny(sxx) == FALSE
SxxTiny(sxx) == QLess(QAbs(sxx), SxxEps)
SsTiny(ss) == QLess(ss, IF Doubles THEN SxxEps ELSE QInt(SsEps))

\* A returned value, or the exception raised instead.
Returned(v) == [err |-> "none", val |-> v]
Raised(e) == [err |-> e]

\* sum(s) / n
Mean(s) == QDiv(QSum(s), QInt(Len(s)))

\* dx = x - mean_x, dy = y - mean_y
Deviations(s, mean) == [k \in 1 .. Len(s) |-> QSub(s[k], mean)]

\* The sums the loops accumulate: sxx += dx * dx, sxy += dx * (y - mean_y).
SumOfProducts(u, v) == QSum([k \in 1 .. Len(u) |-> QMul(u[k], v[k])])

\* An intercept with the sign of a * mean_x turned.
ols_line_plus(mean_x, mean_y, a) == Returned([a |-> a, b |-> QAdd(mean_y, QMul(a, mean_x))])

\* a = sxy / sxx; b = mean_y - a * mean_x
ols_line(mean_x, mean_y, a) == Returned([a |-> a, b |-> QSub(mean_y, QMul(a, mean_x))])

\* The degenerate x: a = 0, b = mean_y.  A float division by 0.0 raises.
ols_solve(mean_x, mean_y, sxx, sxy) ==
    IF SxxTiny(sxx) THEN Returned([a |-> QInt(0), b |-> mean_y])
    ELSE IF QEq(sxx, QInt(0)) THEN Raised("ZeroDivisionError")
    ELSE ols_line(mean_x, mean_y, QDiv(sxy, sxx))

ols_sums(mean_x, mean_y, dx, dy) ==
    ols_solve(mean_x, mean_y, SumOfProducts(dx, dx), SumOfProducts(dx, dy))

ols_means(xs, ys, mean_x, mean_y) ==
    ols_sums(mean_x, mean_y, Deviations(xs, mean_x), Deviations(ys, mean_y))

\* _ols_fit_affine(xs, ys) -> (a, b)
ols_fit_affine(xs, ys) ==
    IF Len(xs) # Len(ys) THEN Raised("ValueError")
    ELSE IF Len(xs) < 2 THEN Raised("ValueError")
    ELSE ols_means(xs, ys, Mean(xs), Mean(ys))

\* A fit that never counts as perfect when the durations do not vary.
DegenerateR2Pessimistic(ss_res) == QInt(0)

\* r2 = 1.0 if ss_res < 1e-30 else 0.0
DegenerateR2(ss_res) == IF SsTiny(ss_res) THEN QInt(1) ELSE QInt(0)

\* Residuals of a prediction that leaves the intercept out.
ResidualsWithoutIntercept(xs, ys, a, b) == [k \in 1 .. Len(xs) |-> QSub(ys[k], QMul(a, xs[k]))]

\* err = y - (a * x + b)
Residuals(xs, ys, a, b) == [k \in 1 .. Len(xs) |-> QSub(ys[k], QAdd(QMul(a, xs[k]), b))]

\* An r2 that is the unexplained part itself.
r2_as_ratio(n, ss_res, ss_tot) ==
    [r2 |-> IF SsTiny(QAbs(ss_tot))
            THEN DegenerateR2(ss_res)
            ELSE QDiv(ss_res, ss_tot),
     rmse2 |-> QSqrt(QDiv(ss_res, QInt(n)))]

\* (r2, rmse) of the two sums; rmse2 is math.sqrt(ss_res / n) where the
\* floats are doubles and its radicand ss_res / n where they are exact.
r2_of_sums(n, ss_res, ss_tot) ==
    [r2 |-> IF SsTiny(QAbs(ss_tot))
            THEN DegenerateR2(ss_res)
            ELSE QSub(QInt(1), QDiv(ss_res, ss_tot)),
     rmse2 |-> QSqrt(QDiv(ss_res, QInt(n)))]

r2_of_errors(n, err, dy) == r2_of_sums(n, SumOfProducts(err, err), SumOfProducts(dy, dy))

\* _r2_and_rmse(xs, ys, a, b) -> (r2, rmse)
r2_and_rmse(xs, ys, a, b) ==
    r2_of_errors(Len(xs), Residuals(xs, ys, a, b), Deviations(ys, Mean(ys)))

\* FitResult(model=model, a=a, b=b, r2=r2, rmse=rmse)
FitResult(m, a, b, r2, rmse2) == [model |-> m, a |-> a, b |-> b, r2 |-> r2, rmse2 |-> rmse2]

\* A duration as the caller writes it, m * 10^e units (1e-4 s is
\* Literal(1, 12)), and the float it stands for.
Literal(m, e) == <<m, e>>
Float(y) ==
    IF Doubles THEN DRatio(1, NMul(NInt(y[1]), NPow10(y[2])), NPow10(UnitExponent), 0)
    ELSE Q(BMul(Big(y[1]), BPow10(y[2])), Big(1))

\* xs = [model.f(float(n)) for n in n_values]; ys = list(map(float, y_values))
Features(m, ns) == [k \in 1 .. Len(ns) |-> ModelF(m, ns[k])]
Floats(ys) == [k \in 1 .. Len(ys) |-> Float(ys[k])]

fit_scored(m, a, b, g) == Returned(FitResult(m, a, b, g.r2, g.rmse2))

fit_line(m, xs, ys, ab) ==
    IF ab.err # "none" THEN ab
    ELSE fit_scored(m, ab.val.a, ab.val.b, r2_and_rmse(xs, ys, ab.val.a, ab.val.b))

fit_features(m, xs, ys) == fit_line(m, xs, ys, ols_fit_affine(xs, ys))

\* fit_model(n_values, y_values, model)
fit_model(ns, ys, m) ==
    IF Len(ns) # Len(ys) THEN Raised("ValueError")
    ELSE IF Len(ns) < 2 THEN Raised("ValueError")
    ELSE fit_features(m, Features(m, ns), Floats(ys))

\* Python compares the key tuples element by element.
KeyLess(k, l) == QLess(k[1], l[1]) \/ (QEq(k[1], l[1]) /\ QLess(k[2], l[2]))

\* key=lambda r: (r.r2, -r.rmse); -rmse orders as -rmse2 does.
FirstSortKey(r) == <<r.r2, QNeg(r.rmse2)>>

\* The key of a sort that leaves out the minus sign of r2.
SecondSortKeyAscending(r) == <<r.r2, r.rmse2>>

\* key=lambda r: (-r.r2, r.rmse)
SecondSortKey(r) == <<QNeg(r.r2), r.rmse2>>

\* list.sort is stable: an element goes behind the elements it does not
\* precede, and "reverse" keeps the order of equal elements.
Precedes(k, l, reverse) == IF reverse THEN KeyLess(l, k) ELSE KeyLess(k, l)

RECURSIVE InsertByKey(_, _, _)
InsertByKey(s, e, reverse) ==
    IF s = << >> THEN <<e>>
    ELSE IF Precedes(e.key, s[1].key, reverse) THEN <<e>> \o s
    ELSE <<s[1]>> \o InsertByKey(Tail(s), e, reverse)

RECURSIVE SortByKey(_, _)
SortByKey(s, reverse) ==
    IF s = << >> THEN s
    ELSE InsertByKey(SortByKey(SubSeq(s, 1, Len(s) - 1), reverse), s[Len(s)], reverse)

Values(s) == [k \in 1 .. Len(s) |-> s[k].val]

\* results.sort(key=lambda r: (r.r2, -r.rmse), reverse=True)
FirstSort(r) ==
    Values(SortByKey([k \in 1 .. Len(r) |-> [key |-> FirstSortKey(r[k]), val |-> r[k]]], TRUE))

\* A second sort that takes the list from its end, so that equal keys come
\* out in the reverse of their order.
SecondSortFromBack(r) ==
    Values(SortByKey([k \in 1 .. Len(r) |-> [key |-> SecondSortKey(r[Len(r) + 1 - k]),
                                            val |-> r[Len(r) + 1 - k]]], FALSE))

\* results.sort(key=lambda r: (-r.r2, r.rmse))
SecondSort(r) ==
    Values(SortByKey([k \in 1 .. Len(r) |-> [key |-> SecondSortKey(r[k]), val |-> r[k]]], FALSE))

\* The first fit_model call that raises ends the list comprehension.
FirstRaised(fits) ==
    fits[CHOOSE k \in 1 .. Len(fits) :
            /\ fits[k].err # "none"
            /\ \A j \in 1 .. k - 1 : fits[j].err = "none"]

sorted_fits(fits) ==
    IF \E k \in 1 .. Len(fits) : fits[k].err # "none"
    THEN FirstRaised(fits)
    ELSE Returned(SecondSort(FirstSort(Values(fits))))

\* fit_all_models(n_values, y_values, models)
fit_all_models(ns, ys, models) ==
    sorted_fits([k \in 1 .. Len(models) |-> fit_model(ns, ys, models[k])])

\* The last element taken for the first.
LastOf(all) ==
    IF all.err # "none" THEN all
    ELSE IF all.val = << >> THEN Raised("IndexError")
    ELSE Returned(all.val[Len(all.val)])

\* fit_all_models(...)[0]
FirstOf(all) ==
    IF all.err # "none" THEN all
    ELSE IF all.val = << >> THEN Raised("IndexError")
    ELSE Returned(all.val[1])

\* best_model(n_values, y_values, models)
best_model(ns, ys, models) == FirstOf(fit_all_models(ns, ys, models))

\* The calls of the fitter: sizes, durations and a catalog come in, and
\* one of the three functions is applied to them.
MaxPoints == 3
FitSizes == {1, 2, 4}
FitDurations == {Literal(0, 0), Literal(14, 0)}
Catalogs ==
    { DEFAULT_MODELS,
      << >>,
      << Model("n^2", "f_n2"), Model("1", "f_const"), Model("n^2", "f_n2") >> }

NonDecreasing(s) == \A k \in 1 .. Len(s) - 1 : s[k] <= s[k + 1]

FitInput(ns, ys, models) ==
    [phase |-> "input", n_values |-> ns, y_values |-> ys, models |-> models,
     arith |-> "exact"]

FitInit ==
    /\ \E ns \in {s \in SeqsUpTo(FitSizes, MaxPoints) : NonDecreasing(s)},
          ys \in SeqsUpTo(FitDurations, MaxPoints),
          models \in Catalogs :
            fit = FitInput(ns, ys, models)
    /\ cfg = CalConfig(0, 1)
    /\ n_values = << >>
    /\ clock = {}
    /\ pc = "idle"
    /\ i = 0
    /\ x = 0
    /\ made = 0
    /\ warm = 0
    /\ loops = 0
    /\ total = 0
    /\ per_call_samples = << >>
    /\ results = << >>
    /\ exc = "none"
    /\ log = << >>
    /\ cal = NoCall
    /\ hset = NoCall
    /\ cqueue = NoCall

FitModel ==
    /\ fit.phase = "input"
    /\ \E k \in 1 .. Len(DEFAULT_MODELS) :
        fit' = [fit EXCEPT !.phase = "fit_model",
                           !.models = <<DEFAULT_MODELS[k]>>] @@
               [out |-> fit_model(fit.n_values, fit.y_values, DEFAULT_MODELS[k])]
    /\ UNCHANGED <<bench_vars, cal, hset, cqueue>>

FitAllModels ==
    /\ fit.phase = "input"
    /\ fit' = [fit EXCEPT !.phase = "fit_all_models"] @@
              [out |-> fit_all_models(fit.n_values, fit.y_values, fit.models)]
    /\ UNCHANGED <<bench_vars, cal, hset, cqueue>>

BestModel ==
    /\ fit.phase = "input"
    /\ fit' = [fit EXCEPT !.phase = "best_model"] @@
              [out |-> best_model(fit.n_values, fit.y_values, fit.models)]
    /\ UNCHANGED <<bench_vars, cal, hset, cqueue>>

FitNext == FitModel \/ FitAllModels \/ BestModel

FitSpec == FitInit /\ [][FitNext]_vars

\* The series of a constant-time callable: four sizes over more than one
\* order of magnitude, and durations that are equal or differ by noise of
\* 0.1% or 2%.
WideSizes == { <<1, 2, 4, 16>>, <<1, 2, 8, 16>>, <<1, 4, 8, 16>> }
ConstantDurations == {Literal(1000, 0), Literal(1001, 0), Literal(1020, 0)}

\* Such series fitted with the floats as doubles: durations of 1e-13 s and
\* of 0.1 s, equal or with that noise, over four sizes and over six
\* (six times 0.1 do not add up to a multiple of 0.1).
ConstantDoubleSeries ==
    { << <<1, 2, 4, 16>>, [k \in 1 .. 4 |-> Literal(1000, 0)] >>,
      << <<1, 2, 4, 16>>, [k \in 1 .. 4 |-> Literal(1, UnitExponent - 1)] >>,
      << <<1, 2, 4, 8, 16, 32>>, [k \in 1 .. 6 |-> Literal(1, UnitExponent - 1)] >>,
      << <<1, 2, 4, 16>>,
         <<Literal(1000, 0), Literal(1001, 0), Literal(1000, 0), Literal(1020, 0)>> >>,
      << <<1, 2, 4, 16>>,
         <<Literal(1020, 12), Literal(1000, 12), Literal(1000, 12), Literal(1000, 12)>> >>,
      << <<1, 2, 8, 16>>,
         <<Literal(1001, 0), Literal(1000, 0), Literal(1000, 0), Literal(1001, 0)>> >> }

ConstantInit ==
    /\ \/ \E ns \in WideSizes :
            \E ys \in [1 .. Len(ns) -> ConstantDurations] :
               fit = FitInput(ns, ys, DEFAULT_MODELS)
       \/ \E s \in ConstantDoubleSeries :
            fit = [FitInput(s[1], s[2], DEFAULT_MODELS) EXCEPT !.arith = "double"]
    /\ cfg = CalConfig(0, 1)
    /\ n_values = << >>
    /\ clock = {}
    /\ pc = "idle"
    /\ i = 0
    /\ x = 0
    /\ made = 0
    /\ warm = 0
    /\ loops = 0
    /\ total = 0
    /\ per_call_samples = << >>
    /\ results = << >>
    /\ exc = "none"
    /\ log = << >>
    /\ cal = NoCall
    /\ hset = NoCall
    /\ cqueue = NoCall

ConstantSpec == ConstantInit /\ [][FitNext]_vars

\* Noise-free linear series y = slope * n + intercept, in units of
\* 10^e * 1e-16 s: the sizes 10, 20, 40, 80, 160 with 1e-5 s per element
\* (e = 11), y = 2 n + 5 in seconds (e = 16), and others of the kind.
Doubling(first, len) == [k \in 1 .. len |-> first * 2^(k - 1)]
LinearSizes ==
    {Doubling(first, len) : first \in {1, 10}, len \in 2 .. 5}
        \cup { <<4, 1>>, <<1, 2, 2>>, <<8, 2, 8, 1>>, <<2, 2>> }
LinearSeries(ns, slope, intercept, e) ==
    [k \in 1 .. Len(ns) |-> Literal(slope * ns[k] + intercept, e)]

\* The linear series fitted with the floats as doubles: 1e-5 s per element
\* and y = 2 n + 5 in seconds.
LinearDoubleSizes == { <<10, 20, 40, 80, 160>>, <<1, 2, 4>>, <<1, 2>>, <<1, 2, 2>> }
LinearDoubleLines == { <<1, 0, 11>>, <<2, 5, 16>> }

LinearInit ==
    /\ \/ \E ns \in LinearSizes, slope \in {1, 2}, intercept \in {0, 5}, e \in {11, 16} :
            fit = FitInput(ns, LinearSeries(ns, slope, intercept, e), DEFAULT_MODELS)
                    @@ [slope |-> slope, intercept |-> intercept, e |-> e]
       \/ \E ns \in LinearDoubleSizes, l \in LinearDoubleLines :
            fit = [FitInput(ns, LinearSeries(ns, l[1], l[2], l[3]), DEFAULT_MODELS)
                       EXCEPT !.arith = "double"]
                    @@ [slope |-> l[1], intercept |-> l[2], e |-> l[3]]
    /\ cfg = CalConfig(0, 1)
    /\ n_values = << >>
    /\ clock = {}
    /\ pc = "idle"
    /\ i = 0
    /\ x = 0
    /\ made = 0
    /\ warm = 0
    /\ loops = 0
    /\ total = 0
    /\ per_call_samples = << >>
    /\ results = << >>
    /\ exc = "none"
    /\ log = << >>
    /\ cal = NoCall
    /\ hset = NoCall
    /\ cqueue = NoCall

LinearSpec == LinearInit /\ [][FitNext]_vars

\* Series of exactly two points: any two sizes, any two durations (equal,
\* apart by less than the epsilon of _r2_and_rmse, or further apart).
TwoPointSizes == {1, 2, 4}
TwoPointDurations == {Literal(0, 0), Literal(14, 0), Literal(15, 0), Literal(1, 12)}

\* Two points fitted with the floats as doubles: durations of
\* 1.000000001 s and 1.000000002 s, which are close, and of 3 s.
TwoPointDoubleSizes == { <<1, 2>>, <<2, 4>>, <<2, 2>> }
TwoPointDoubleDurations == {Literal(1000000001, 7), Literal(1000000002, 7), Literal(3, 16)}

TwoPointInit ==
    /\ \/ \E ns \in [1 .. 2 -> TwoPointSizes], ys \in [1 .. 2 -> TwoPointDurations],
             models \in Catalogs :
               fit = FitInput(ns, ys, models)
       \/ \E ns \in TwoPointDoubleSizes, ys \in [1 .. 2 -> TwoPointDoubleDurations] :
            fit = [FitInput(ns, ys, DEFAULT_MODELS) EXCEPT !.arith = "double"]
    /\ cfg = CalConfig(0, 1)
    /\ n_values = << >>
    /\ clock = {}
    /\ pc = "idle"
    /\ i = 0
    /\ x = 0
    /\ made = 0
    /\ warm = 0
    /\ loops = 0
    /\ total = 0
    /\ per_call_samples = << >>
    /\ results = << >>
    /\ exc = "none"
    /\ log = << >>
    /\ cal = NoCall
    /\ hset = NoCall
    /\ cqueue = NoCall

TwoPointSpec == TwoPointInit /\ [][FitNext]_vars

\* Series fitted with the floats as doubles: durations of whole seconds and
\* of 0.1 s, which is no double, over sizes that differ, sizes that are all
\* equal (6 log2(6) is no double either), and sizes of at most 2.
Seconds(m) == Literal(m, UnitExponent)
Tenths(m) == Literal(m, UnitExponent - 1)
DoubleSeries ==
    { << <<1, 2, 4>>, <<Seconds(0), Seconds(3), Seconds(1)>> >>,
      << <<1, 2, 4>>, <<Seconds(7), Seconds(9), Seconds(13)>> >>,
      << <<1, 2, 4>>, <<Seconds(5), Seconds(5), Seconds(5)>> >>,
      << <<1, 2, 4>>, <<Tenths(1), Tenths(1), Tenths(1)>> >>,
      << <<1, 2, 4>>, <<Tenths(1), Tenths(2), Tenths(7)>> >>,
      << <<6, 6, 6>>, <<Seconds(0), Seconds(0), Seconds(1)>> >>,
      << <<6, 6, 6>>, <<Tenths(1), Tenths(1), Tenths(1)>> >>,
      << <<6, 6, 6>>, <<Seconds(5), Seconds(5), Seconds(5)>> >>,
      << <<2, 2, 2>>, <<Seconds(0), Seconds(1), Seconds(4)>> >>,
      << <<2, 2, 2>>, <<Tenths(3), Tenths(3), Tenths(3)>> >>,
      << <<1, 2>>, <<Seconds(0), Seconds(1)>> >>,
      << <<1, 2>>, <<Tenths(1), Tenths(1)>> >>,
      << <<1, 2, 2>>, <<Seconds(0), Seconds(1), Seconds(3)>> >>,
      << <<2, 4, 6>>, <<Seconds(1), Seconds(3), Seconds(4)>> >> }

DoubleInit ==
    /\ \E s \in DoubleSeries :
         fit = [FitInput(s[1], s[2], DEFAULT_MODELS) EXCEPT !.arith = "double"]
    /\ cfg = CalConfig(0, 1)
    /\ n_values = << >>
    /\ clock = {}
    /\ pc = "idle"
    /\ i = 0
    /\ x = 0
    /\ made = 0
    /\ warm = 0
    /\ loops = 0
    /\ total = 0
    /\ per_call_samples = << >>
    /\ results = << >>
    /\ exc = "none"
    /\ log = << >>
    /\ cal = NoCall
    /\ hset = NoCall
    /\ cqueue = NoCall

DoubleSpec == DoubleInit /\ [][FitNext]_vars

\* A basis function of the catalog called on one size: the sizes -1, 0, 1
\* and 2 and larger ones on which log2 is modelled, with exact floats and
\* with doubles.
BasisInputs ==
    ({-1, 0, 1, 2, 4, 5, 8, 10, 16} \X {"exact"}) \cup ({-1, 0, 1, 2, 4, 6, 8, 16, 32} \X {"double"})

BasisInit ==
    /\ \E p \in BasisInputs : fit = [phase |-> "input", n |-> p[1], arith |-> p[2]]
    /\ cfg = CalConfig(0, 1)
    /\ n_values = << >>
    /\ clock = {}
    /\ pc = "idle"
    /\ i = 0
    /\ x = 0
    /\ made = 0
    /\ warm = 0
    /\ loops = 0
    /\ total = 0
    /\ per_call_samples = << >>
    /\ results = << >>
    /\ exc = "none"
    /\ log = << >>
    /\ cal = NoCall
    /\ hset = NoCall
    /\ cqueue = NoCall

\* model.f(n) for a model of the catalog
CallBasis ==
    /\ fit.phase = "input"
    /\ \E k \in 1 .. Len(DEFAULT_MODELS) :
         fit' = [fit EXCEPT !.phase = "basis"] @@
                [model |-> DEFAULT_MODELS[k], out |-> ModelF(DEFAULT_MODELS[k], fit.n)]
    /\ UNCHANGED <<bench_vars, cal, hset, cqueue>>

BasisSpec == BasisInit /\ [][CallBasis]_vars

(***************************************************************************)
(* open_addressing_set.py: OpenAddressingHashSet over int keys.  hset      *)
(* holds the object (table, size, tombstones), the built-in set that the   *)
(* same calls build (ref), and the last call with what it returned.        *)
(***************************************************************************)
\* No call of the other parts of the program is under way.
Idle ==
    /\ cfg = CalConfig(0, 1)
    /\ n_values = << >>
    /\ clock = {}
    /\ pc = "idle"
    /\ i = 0
    /\ x = 0
    /\ made = 0
    /\ warm = 0
    /\ loops = 0
    /\ total = 0
    /\ per_call_samples = << >>
    /\ results = << >>
    /\ exc = "none"
    /\ log = << >>
    /\ cal = NoCall
    /\ fit = NoCall

EMPTY == [slot |-> "EMPTY"]
DELETED == [slot |-> "DELETED"]
Key(k) == [slot |-> "key", key |-> k]

Keys == {-1, 0, 1, 4, 8, 16}
InitialCapacities == {3, 9}

\* hash(key) of an int of this size is the int, but hash(-1) = -2.
PyHash(k) == IF k = -1 THEN -2 ELSE k

\* h & 0x7FFFFFFF
NonNegative(h) == IF h >= 0 THEN h ELSE (h + 2147483647) + 1

\* cap = 1; while cap < capacity: cap <<= 1
RECURSIVE CapacityFrom(_, _)
CapacityFrom(cap, capacity) == IF cap < capacity THEN CapacityFrom(2 * cap, capacity) ELSE cap

EmptyTable(cap) == [k \in 1 .. cap |-> EMPTY]

\* The slot table[idx] of Python is table[idx + 1] here.
Slot(table, idx) == table[idx + 1]
Store(table, idx, slot) == [table EXCEPT ![idx + 1] = slot]

\* The loop of _find_slot from index idx on; first_deleted is -1 for None.
\* The loop has no exit but its two returns: after a full round without
\* one it runs for ever, which "hangs" stands for.
RECURSIVE Probe(_, _, _, _, _)
Probe(table, key, idx, first_deleted, probes) ==
    IF probes = Len(table) THEN [found |-> FALSE, index |-> -1, hangs |-> TRUE]
    ELSE IF Slot(table, idx) = EMPTY
         THEN [found |-> FALSE,
               index |-> IF first_deleted # -1 THEN first_deleted ELSE idx,
               hangs |-> FALSE]
    ELSE IF Slot(table, idx) = DELETED
         THEN Probe(table, key, (idx + 1) % Len(table),
                    IF first_deleted = -1 THEN idx ELSE first_deleted, probes + 1)
    ELSE IF Slot(table, idx).key = key
         THEN [found |-> TRUE, index |-> idx, hangs |-> FALSE]
    ELSE Probe(table, key, (idx + 1) % Len(table), first_deleted, probes + 1)

\* _find_slot(key)
find_slot(table, key) ==
    Probe(table, key, NonNegative(PyHash(key)) % Len(table), -1, 0)

\* __iter__: the keys of the table in slot order.
RECURSIVE Iterate(_)
Iterate(table) ==
    IF table = << >> THEN << >>
    ELSE IF table[1] = EMPTY \/ table[1] = DELETED THEN Iterate(Tail(table))
    ELSE <<table[1].key>> \o Iterate(Tail(table))

\* __contains__ and __len__
Contains(h, key) == find_slot(h.table, key).found
Length(h) == h.size

Object(table, size, tombstones, hangs) ==
    [table |-> table, size |-> size, tombstones |-> tombstones, hangs |-> hangs]

\* One round of the loop of _resize: res = _find_slot(x); table[res.index]
\* = x; size += 1.
Reinsert(h, key, res) ==
    IF h.hangs \/ res.hangs THEN Object(h.table, h.size, h.tombstones, TRUE)
    ELSE Object(Store(h.table, res.index, Key(key)), h.size + 1, h.tombstones, FALSE)

RECURSIVE ReinsertAll(_, _)
ReinsertAll(h, old_items) ==
    IF old_items = << >> THEN h
    ELSE ReinsertAll(Reinsert(h, old_items[1], find_slot(h.table, old_items[1])),
                     Tail(old_items))

\* _resize(new_capacity)
resize(h, new_capacity) ==
    ReinsertAll(Object(EmptyTable(CapacityFrom(1, new_capacity)), 0, 0, h.hangs),
                Iterate(h.table))

\* _load_factor() >= 0.70, in whole numbers.
LoadFactorHigh(h) == 10 * (h.size + h.tombstones) >= 7 * Len(h.table)

\* _maybe_resize_for_insert()
maybe_resize_for_insert(h) ==
    IF LoadFactorHigh(h) THEN resize(h, Len(h.table) * 2) ELSE h

\* _maybe_rehash_due_to_tombstones()
maybe_rehash_due_to_tombstones(h) ==
    IF h.tombstones > h.size /\ Len(h.table) > 8 THEN resize(h, Len(h.table)) ELSE h

\* add(key) after the resize: the slot found, then the insertion.
InsertAt(h, key, res) ==
    IF res.hangs THEN [obj |-> Object(h.table, h.size, h.tombstones, TRUE), ret |-> FALSE]
    ELSE IF res.found THEN [obj |-> h, ret |-> FALSE]
    ELSE [obj |-> Object(Store(h.table, res.index, Key(key)), h.size + 1,
                         IF Slot(h.table, res.index) = DELETED
                         THEN h.tombstones - 1 ELSE h.tombstones,
                         h.hangs),
          ret |-> TRUE]

AddTo(h, key) == InsertAt(h, key, find_slot(h.table, key))

\* add(key)
add(h, key) == AddTo(maybe_resize_for_insert(h), key)

\* A removal that empties the slot, which cuts the probe chains through it.
RemoveAtLeavingEmpty(h, res) ==
    IF res.hangs THEN [obj |-> Object(h.table, h.size, h.tombstones, TRUE), ret |-> FALSE]
    ELSE IF ~res.found THEN [obj |-> h, ret |-> FALSE]
    ELSE [obj |-> Object(Store(h.table, res.index, EMPTY), h.size - 1, h.tombstones, h.hangs),
          ret |-> TRUE]

\* remove(key) once the slot is found.
RemoveAt(h, res) ==
    IF res.hangs THEN [obj |-> Object(h.table, h.size, h.tombstones, TRUE), ret |-> FALSE]
    ELSE IF ~res.found THEN [obj |-> h, ret |-> FALSE]
    ELSE [obj |-> maybe_rehash_due_to_tombstones(
                     Object(Store(h.table, res.index, DELETED), h.size - 1,
                            h.tombstones + 1, h.hangs)),
          ret |-> TRUE]

\* remove(key)
remove(h, key) == RemoveAt(h, find_slot(h.table, key))

\* clear()
clear(h) == Object(EmptyTable(Len(h.table)), 0, 0, h.hangs)

\* The object of hset, and hset after a call on it.
HsObject == Object(hset.table, hset.size, hset.tombstones, hset.hangs)
AfterCall(op, key, done, ref) ==
    [table |-> done.obj.table, size |-> done.obj.size,
     tombstones |-> done.obj.tombstones, hangs |-> done.obj.hangs,
     ref |-> ref, op |-> op, key |-> key, ret |-> done.ret,
     was_in |-> key \in hset.ref]

\* OpenAddressingHashSet(initial_capacity)
HsInit ==
    /\ \E initial_capacity \in InitialCapacities :
         hset = [table |-> EmptyTable(CapacityFrom(1, Max(4, initial_capacity))),
                 size |-> 0, tombstones |-> 0, hangs |-> FALSE,
                 ref |-> {}, op |-> "init", key |-> 0, ret |-> FALSE, was_in |-> FALSE]
    /\ Idle
    /\ cqueue = NoCall

HsAdd ==
    /\ ~hset.hangs
    /\ \E key \in Keys :
         hset' = AfterCall("add", key, add(HsObject, key), hset.ref \cup {key})
    /\ UNCHANGED <<bench_vars, cal, fit, cqueue>>

HsRemove ==
    /\ ~hset.hangs
    /\ \E key \in Keys :
         hset' = AfterCall("remove", key, remove(HsObject, key), hset.ref \ {key})
    /\ UNCHANGED <<bench_vars, cal, fit, cqueue>>

HsClear ==
    /\ ~hset.hangs
    /\ hset' = AfterCall("clear", 0, [obj |-> clear(HsObject), ret |-> FALSE], {})
    /\ UNCHANGED <<bench_vars, cal, fit, cqueue>>

HsNext == HsAdd \/ HsRemove \/ HsClear

HsSpec == HsInit /\ [][HsNext]_vars

(***************************************************************************)
(* CircularQueue of queue_basics.py: a ring buffer of fixed capacity.      *)
(* cqueue holds the object (buf, cap, head, tail, size), the items a       *)
(* bounded FIFO holds after the same calls (ref), the last call, what it   *)
(* returned or raised, and the object and the items before that call.      *)
(***************************************************************************)
Capacities == {1, 2, 3}
Items == {1, 2, 3}

\* CircularQueue(capacity), capacity > 0
CircularQueue(capacity) ==
    [buf |-> [k \in 1 .. capacity |-> None], cap |-> capacity,
     head |-> 0, tail |-> 0, size |-> 0]

is_empty(q) == q.size = 0
is_full(q) == q.size = q.cap

\* An index that stays where it is.
NextIndexStuck(idx, cap) == idx

\* (idx + 1) % self._cap
NextIndex(idx, cap) == (idx + 1) % cap

\* enqueue(x)
enqueue(q, item) ==
    IF is_full(q) THEN [obj |-> q, out |-> Raised("OverflowError")]
    ELSE [obj |-> [buf |-> [q.buf EXCEPT ![q.tail + 1] = Some(item)], cap |-> q.cap,
                   head |-> q.head, tail |-> NextIndex(q.tail, q.cap),
                   size |-> q.size + 1],
          out |-> Returned(None)]

\* dequeue()
dequeue(q) ==
    IF is_empty(q) THEN [obj |-> q, out |-> Raised("IndexError")]
    ELSE [obj |-> [buf |-> [q.buf EXCEPT ![q.head + 1] = None], cap |-> q.cap,
                   head |-> NextIndex(q.head, q.cap), tail |-> q.tail,
                   size |-> q.size - 1],
          out |-> Returned(q.buf[q.head + 1])]

\* peek()
peek(q) ==
    IF is_empty(q) THEN [obj |-> q, out |-> Raised("IndexError")]
    ELSE [obj |-> q, out |-> Returned(q.buf[q.head + 1])]

\* list(q): __iter__
ItemsOf(q) == [k \in 1 .. q.size |-> q.buf[((q.head + (k - 1)) % q.cap) + 1]]

\* The bounded FIFO the queue is compared with.
RefEnqueue(ref, cap, item) == IF Len(ref) < cap THEN Append(ref, Some(item)) ELSE ref
RefDequeue(ref) == IF ref = << >> THEN ref ELSE Tail(ref)

\* The object of cqueue, and cqueue after a call on it.
CqObject ==
    [buf |-> cqueue.buf, cap |-> cqueue.cap, head |-> cqueue.head,
     tail |-> cqueue.tail, size |-> cqueue.size]
CqAfterCall(op, done, ref) ==
    [buf |-> done.obj.buf, cap |-> done.obj.cap, head |-> done.obj.head,
     tail |-> done.obj.tail, size |-> done.obj.size,
     ref |-> ref, op |-> op, out |-> done.out,
     before |-> CqObject, ref_before |-> cqueue.ref]

\* cqueue right after the constructor.
CqConstructed(q) ==
    [buf |-> q.buf, cap |-> q.cap, head |-> q.head, tail |-> q.tail, size |-> q.size,
     ref |-> << >>, op |-> "init", out |-> Returned(None),
     before |-> q, ref_before |-> << >>]

CqInit ==
    /\ \E capacity \in Capacities :
         cqueue = CqConstructed(CircularQueue(capacity))
    /\ Idle
    /\ hset = NoCall

CqEnqueue ==
    /\ \E item \in Items :
         cqueue' = CqAfterCall("enqueue", enqueue(CqObject, item),
                               RefEnqueue(cqueue.ref, cqueue.cap, item))
    /\ UNCHANGED <<bench_vars, cal, fit, hset>>

CqDequeue ==
    /\ cqueue' = CqAfterCall("dequeue", dequeue(CqObject), RefDequeue(cqueue.ref))
    /\ UNCHANGED <<bench_vars, cal, fit, hset>>

CqPeek ==
    /\ cqueue' = CqAfterCall("peek", peek(CqObject), cqueue.ref)
    /\ UNCHANGED <<bench_vars, cal, fit, hset>>

CqNext == CqEnqueue \/ CqDequeue \/ CqPeek

CqSpec == CqInit /\ [][CqNext]_vars

(***************************************************************************)
(* The claims.                                                             *)
(***************************************************************************)
RECURSIVE IsPowerOfTwo(_)
IsPowerOfTwo(n) == n >= 1 /\ (n = 1 \/ (n % 2 = 0 /\ IsPowerOfTwo(n \div 2)))

Ended == pc \in {"done", "raised"}
UserCodeRaised == exc \in {"FactoryError", "CallableError"}

\* C1: benchmark_series raises a validation error whenever a size is
\* non-positive (sizes=[0] included) and never returns a Measurement whose
\* n is <= 0.
C1_NonPositiveSizeRaises ==
    /\ \A k \in 1 .. Len(results) : results[k].n > 0
    /\ pc = "done" => \A k \in 1 .. Len(n_values) : n_values[k] > 0

\* C2: for every Config and every sequence of sizes on which neither the
\* factory nor the callable raises, benchmark_series returns exactly
\* len(sizes) Measurements, the k-th with n equal to the k-th size.
C2_OneMeasurementPerSize ==
    (Ended /\ ~UserCodeRaised) =>
        /\ pc = "done"
        /\ Len(results) = Len(n_values)
        /\ \A k \in 1 .. Len(n_values) : results[k].n = n_values[k]

\* C3: when the factory or the callable raises while a size is measured,
\* benchmark_series ends with that exception: the failed call is the last
\* call ever made (no retry, no later size), and no list is returned.
C3_RaisePropagates ==
    \A k \in 1 .. Len(log) :
        ~log[k].ok =>
            /\ k = Len(log)
            /\ pc = "raised"
            /\ exc = (IF log[k].ev = "make" THEN "FactoryError" ELSE "CallableError")
            /\ log[k].i = i

C3_Witness ==
    /\ pc = "raised"
    /\ exc = "CallableError"
    /\ i < Len(n_values)
    /\ log[Len(log)].ev = "rec"
    /\ ~log[Len(log)].ok

\* C4 as claimed: the loop count _choose_loops returns is a power of two.
C4_LoopsPowerOfTwo == pc = "record" => IsPowerOfTwo(loops)

\* C4 as amended: the loop count _choose_loops returns is a power of two
\* or cfg.max_loops itself.
C4_LoopsPowerOfTwoOrCap ==
    pc = "record" => (IsPowerOfTwo(loops) \/ loops = cfg.max_loops)

C4_Witness == pc = "record" /\ loops = 3 /\ cfg.max_loops = 3

\* C5: every Measurement has 1 <= loops <= cfg.max_loops, and no batch
\* total is divided by a loop count of 0.
C5_LoopsWithinBounds ==
    /\ \A k \in 1 .. Len(results) :
          1 <= results[k].loops /\ results[k].loops <= cfg.max_loops
    /\ exc # "ZeroDivisionError"

\* C6: for a deterministic callable and a fixed max_loops, m1 <= m2 implies
\* that the loop count chosen with min_time_per_repeat = m1 is at most the
\* one chosen with m2.
C6_CalibratorMonotone ==
    (cal.phase = "both" /\ cal.m1 <= cal.m2) => cal.loops1 <= cal.loops2

CountLess(s, v) == Cardinality({j \in 1 .. Len(s) : FracLess(s[j], v)})
CountLeq(s, v) == Cardinality({j \in 1 .. Len(s) : FracLeq(s[j], v)})
IsKthSmallest(s, v, k) == CountLess(s, v) <= k - 1 /\ CountLeq(s, v) >= k
Inflate(s, j) == [s EXCEPT ![j] = Frac(100 * s[j].num, s[j].den)]
Without(s, j) == SubSeq(s, 1, j - 1) \o SubSeq(s, j + 1, Len(s))
FiveSampleResults == {k \in 1 .. Len(results) : Len(results[k].samples[1]) = 5}

\* C7 as claimed: seconds is the third smallest of the five samples, and
\* with any one sample inflated 100x the median of the five is never the
\* inflated value.
C7_MedianNeverInflated ==
    \A k \in FiveSampleResults :
        LET s == results[k].samples[1]
        IN /\ IsKthSmallest(s, results[k].seconds, 3)
           /\ \A j \in 1 .. 5 : ~FracEq(Median(Inflate(s, j)), Inflate(s, j)[j])

\* C7 as amended: seconds is the third smallest of the five samples; with
\* any one sample inflated 100x the median is still the third smallest of
\* the five, lies between the second and the third smallest of the four
\* untouched samples, and is the inflated value only when at least two
\* untouched samples are no smaller than it.
C7_MedianRobust ==
    \A k \in FiveSampleResults :
        LET s == results[k].samples[1]
        IN /\ IsKthSmallest(s, results[k].seconds, 3)
           /\ \A j \in 1 .. 5 :
                LET t == Inflate(s, j)
                    m == Median(t)
                    o == Without(s, j)
                IN /\ IsKthSmallest(t, m, 3)
                   /\ CountLeq(o, m) >= 2
                   /\ CountLess(o, m) <= 2
                   /\ FracEq(m, t[j]) => Len(o) - CountLess(o, t[j]) >= 2

C7_Witness ==
    \E k \in FiveSampleResults :
        LET s == results[k].samples[1]
        IN \E j, h \in 1 .. 5 :
              /\ s[h].num > 0
              /\ s[j].num = 100 * s[h].num
              /\ \A g \in (1 .. 5) \ {j} : s[g].num < 100
              /\ ~FracEq(results[k].seconds, s[j])

\* A call of the fitter has ended, with a value or with an exception.
FitEnded(f) == fit.phase = f
FitReturned(f) == FitEnded(f) /\ fit.out.err = "none"
TooFewOrMismatched == Len(fit.n_values) < 2 \/ Len(fit.n_values) # Len(fit.y_values)
Occurrences(s, e) == Cardinality({k \in 1 .. Len(s) : s[k] = e})
ModelsOf(r) == [k \in 1 .. Len(r) |-> r[k].model]
IndexOf(r, name) == CHOOSE k \in 1 .. Len(r) : r[k].model.name = name
EqualDurations == \A k \in 1 .. Len(fit.y_values) : fit.y_values[k] = fit.y_values[1]

\* C8: what fit_all_models returns holds one fit per model of the catalog
\* it was given, each the fit of its model, a permutation of the catalog;
\* along the list r2 never increases, and between two neighbours of equal
\* r2 rmse never decreases.
C8_FitAllOrdered ==
    FitReturned("fit_all_models") =>
        LET r == fit.out.val
        IN /\ Len(r) = Len(fit.models)
           /\ \A k \in 1 .. Len(r) :
                /\ Occurrences(ModelsOf(r), fit.models[k]) = Occurrences(fit.models, fit.models[k])
                /\ r[k] = fit_model(fit.n_values, fit.y_values, r[k].model).val
           /\ \A k \in 1 .. Len(r) - 1 :
                /\ QLeq(r[k + 1].r2, r[k].r2)
                /\ QEq(r[k + 1].r2, r[k].r2) => QLeq(r[k].rmse2, r[k + 1].rmse2)

\* fit_all_models has put the six fits in an order that is not the
\* catalog's, with r2 falling along it.
C8_Witness ==
    /\ FitReturned("fit_all_models")
    /\ Len(fit.out.val) = Len(DEFAULT_MODELS)
    /\ ModelsOf(fit.out.val) # fit.models
    /\ \E k \in 1 .. Len(fit.out.val) - 1 : QLess(fit.out.val[k + 1].r2, fit.out.val[k].r2)

\* C9: fit_model, fit_all_models and best_model raise ValueError, and
\* return nothing, whenever there are fewer than 2 points or the sizes and
\* the durations differ in length.
C9_InvalidInputRaises ==
    (/\ FitEnded("fit_model") \/ FitEnded("fit_all_models") \/ FitEnded("best_model")
     /\ TooFewOrMismatched)
        => fit.out.err = "ValueError"

RoundsTo(p, q, scale) ==
    IF Doubles THEN QLess(QAbs(QSub(p, q)), QDiv(scale, QInt(Pow2(30)))) ELSE QEq(p, q)
MeanDuration == Mean(Floats(fit.y_values))

Slope == Float(Literal(fit.slope, fit.e))
Intercept == Float(Literal(fit.intercept, fit.e))
DistinctSizes == {fit.n_values[k] : k \in 1 .. Len(fit.n_values)}
IsScenario ==
    /\ fit.n_values = <<10, 20, 40, 80, 160>>
    /\ fit.y_values = [k \in 1 .. 5 |-> Literal(fit.n_values[k], 11)]
Best == IF FitEnded("best_model") THEN fit.out.val ELSE fit.out.val[1]

\* C11: for sizes 10, 20, 40, 80, 160 and durations 1e-4 .. 16e-4 s (and
\* for every other noise-free linear series over three or more distinct
\* sizes) fit_all_models puts the "n" model first and best_model returns
\* it, with a the slope (1e-5 s), b the intercept (0) and r2 = 1, and every
\* other model of the catalog has r2 < 1.
C11_LinearSeriesBestIsN ==
    (/\ FitEnded("fit_all_models") \/ FitEnded("best_model")
     /\ Cardinality(DistinctSizes) >= 3)
        => /\ fit.out.err = "none"
           /\ Best.model.name = "n"
           /\ QEq(Best.a, Slope)
           /\ QEq(Best.b, Intercept)
           /\ QEq(Best.r2, QInt(1))
           /\ FitEnded("fit_all_models") =>
                \A k \in 2 .. Len(fit.out.val) : QLess(fit.out.val[k].r2, QInt(1))

\* C11, amended: on these series the "n" model is first and best_model
\* returns it, every other model has r2 < 1, and a is the slope, b the
\* intercept and r2 is 1 up to the rounding of the doubles.
C11_LinearSeriesBestIsNUpToRounding ==
    (/\ FitEnded("fit_all_models") \/ FitEnded("best_model")
     /\ Cardinality(DistinctSizes) >= 3)
        => /\ fit.out.err = "none"
           /\ Best.model.name = "n"
           /\ RoundsTo(Best.a, Slope, Slope)
           /\ RoundsTo(Best.b, Intercept, MeanDuration)
           /\ RoundsTo(Best.r2, QInt(1), QInt(1))
           /\ QLeq(Best.r2, QInt(1))
           /\ FitEnded("fit_all_models") =>
                \A k \in 2 .. Len(fit.out.val) : QLess(fit.out.val[k].r2, QInt(1))

\* fit_all_models has ranked the series of the scenario, as doubles: the
\* "n" model is first with a = 1e-5 and an intercept that is not 0.
C11_Witness ==
    /\ FitReturned("fit_all_models")
    /\ Doubles
    /\ IsScenario
    /\ fit.out.val[1].model.name = "n"
    /\ Len(fit.out.val) = Len(DEFAULT_MODELS)
    /\ QEq(fit.out.val[1].a, Slope)
    /\ ~QEq(fit.out.val[1].b, QInt(0))

\* C12: fit_model with the "n" model on a noise-free series
\* y = slope * n + intercept over two or more distinct sizes (y = 2 n + 5
\* among them) returns a = slope, b = intercept, r2 = 1 and rmse = 0.
C12_ExactFitRoundTrip ==
    (/\ FitEnded("fit_model")
     /\ fit.models[1].name = "n"
     /\ Cardinality(DistinctSizes) >= 2)
        => /\ fit.out.err = "none"
           /\ QEq(fit.out.val.a, Slope)
           /\ QEq(fit.out.val.b, Intercept)
           /\ QEq(fit.out.val.r2, QInt(1))
           /\ QEq(fit.out.val.rmse2, QInt(0))

\* C12, amended: on such a series fit_model with the "n" model returns
\* a = slope, b = intercept, r2 = 1 and rmse = 0 up to the rounding of the
\* doubles.
C12_RoundTripUpToRounding ==
    (/\ FitEnded("fit_model")
     /\ fit.models[1].name = "n"
     /\ Cardinality(DistinctSizes) >= 2)
        => /\ fit.out.err = "none"
           /\ RoundsTo(fit.out.val.a, Slope, Slope)
           /\ RoundsTo(fit.out.val.b, Intercept, MeanDuration)
           /\ RoundsTo(fit.out.val.r2, QInt(1), QInt(1))
           /\ QLeq(fit.out.val.r2, QInt(1))
           /\ RoundsTo(fit.out.val.rmse2, QInt(0), MeanDuration)

\* fit_model has fitted y = 2 n + 5, in seconds, over the sizes 1, 2, 4
\* with the "n" model, as doubles: a is above 2 and b below 5.
C12_Witness ==
    /\ FitReturned("fit_model")
    /\ Doubles
    /\ fit.models[1].name = "n"
    /\ fit.n_values = <<1, 2, 4>>
    /\ fit.slope = 2 /\ fit.intercept = 5 /\ fit.e = 16
    /\ QLess(Slope, fit.out.val.a)
    /\ QLess(fit.out.val.b, Intercept)

\* The basis values of model m differ at the two sizes of the call.
BasisDiffers(m) == ~QEq(ModelF(m, fit.n_values[1]), ModelF(m, fit.n_values[2]))

AllOfCall == fit_all_models(fit.n_values, fit.y_values, fit.models)

BestIsFirst(out, all) ==
    (all.err = "none" /\ all.val # << >>) => out = Returned(all.val[1])
RaisesWhenAllRaises(out, all) == out.err # "none" <=> all.err # "none"
RaisesAsAllOrIndexError(out, all) ==
    /\ all.err # "none" => out = all
    /\ (all.err = "none" /\ all.val = << >>) => out = Raised("IndexError")

\* C14: best_model returns the first element of what fit_all_models
\* returns on the same arguments whenever that list is not empty, and
\* raises exactly when fit_all_models raises.
C14_BestIsFirstOfAll ==
    FitEnded("best_model") =>
        (LET Claimed(out, all) == BestIsFirst(out, all) /\ RaisesWhenAllRaises(out, all)
         IN Claimed(fit.out, AllOfCall))

\* C14, amended: best_model returns the first element of a non-empty
\* list, raises what fit_all_models raises, and raises IndexError when
\* fit_all_models returns the empty list (an empty catalog); it raises in
\* these two cases only.
C14_BestIsFirstOrIndexError ==
    FitEnded("best_model") =>
        (LET Amended(out, all) == BestIsFirst(out, all) /\ RaisesAsAllOrIndexError(out, all)
         IN Amended(fit.out, AllOfCall))

\* best_model has returned a fit that is not that of the catalog's first
\* model.
C14_Witness ==
    /\ FitReturned("best_model")
    /\ Len(fit.models) = Len(DEFAULT_MODELS)
    /\ fit.out.val.model # fit.models[1]
    /\ fit.out.val = AllOfCall.val[1]

\* The keys that iterating over the object yields.
Iterated == Iterate(hset.table)
HomeIndex(key) == NonNegative(PyHash(key)) % Len(hset.table)

\* C15: after any sequence of add, remove and clear the hash set is the
\* set the same calls build: add returned True exactly when the key was
\* absent, remove returned True exactly when it was present, and len,
\* membership and the iterated keys are those of the reference set, no key
\* iterated twice (no call hangs in the probing loop).
C15_HashSetIsASet ==
    /\ ~hset.hangs
    /\ hset.op = "add" => (hset.ret <=> ~hset.was_in)
    /\ hset.op = "remove" => (hset.ret <=> hset.was_in)
    /\ Length(HsObject) = Cardinality(hset.ref)
    /\ \A key \in Keys : Contains(HsObject, key) <=> key \in hset.ref
    /\ {Iterated[k] : k \in 1 .. Len(Iterated)} = hset.ref
    /\ Len(Iterated) = Cardinality(hset.ref)

\* A table that has grown from 4 to 16 slots holds a tombstone in front
\* of a key that sits behind its home slot, after a successful add.
C15_Witness ==
    /\ hset.op = "add" /\ hset.ret
    /\ Len(hset.table) = 16
    /\ hset.tombstones >= 1
    /\ \E key \in hset.ref :
         /\ ~(Slot(hset.table, HomeIndex(key)) = Key(key))
         /\ Slot(hset.table, HomeIndex(key)) = DELETED

\* The items of the queue now and before the last call.
Contents == ItemsOf(CqObject)
ContentsBefore == ItemsOf(cqueue.before)

\* C16: the circular queue is a FIFO bounded by its capacity: iteration
\* yields the items in insertion order, dequeue and peek return the oldest
\* item, len never exceeds the capacity, enqueue raises OverflowError
\* exactly on a full queue, dequeue and peek raise IndexError exactly on an
\* empty one, and a call that raises leaves the object as it was.
C16_CircularQueueIsBoundedFifo ==
    /\ Contents = cqueue.ref
    /\ cqueue.size = Len(cqueue.ref)
    /\ cqueue.size <= cqueue.cap
    /\ cqueue.op = "enqueue" =>
         (cqueue.out.err = "OverflowError" <=> Len(cqueue.ref_before) = cqueue.cap)
    /\ cqueue.op \in {"dequeue", "peek"} =>
         /\ cqueue.out.err = "IndexError" <=> cqueue.ref_before = << >>
         /\ cqueue.out.err = "none" => cqueue.out.val = Head(cqueue.ref_before)
    /\ cqueue.out.err \in {"none", "OverflowError", "IndexError"}
    /\ cqueue.out.err # "none" => CqObject = cqueue.before
    /\ cqueue.op = "peek" => Contents = ContentsBefore

\* A dequeue returned the oldest item of a queue of capacity 3 whose
\* items wrap around the end of the buffer.
C16_Witness ==
    /\ cqueue.op = "dequeue" /\ cqueue.out.err = "none"
    /\ cqueue.cap = 3 /\ cqueue.size = 2
    /\ cqueue.tail < cqueue.head
    /\ cqueue.before.size = 3 /\ cqueue.before.head > 0
    /\ Contents[1] # Contents[2]

\* The calls made for the j-th size, those of one kind among them, and the
\* place of a kind in the order of the phases.
SizeEvents(j) == SelectSeq(log, LAMBDA e : e.i = j)
OfKind(s, kind) == SelectSeq(s, LAMBDA e : e.ev = kind)
PhaseRank(kind) ==
    CASE kind = "make" -> 0
      [] kind = "warm" -> 1
      [] kind = "cal" -> 2
      [] kind = "rec" -> 3

\* _time_call: "for _ in range(loops): func()" calls func max(0, loops) times.
Invocations(k) == Max(0, k)

\* The loop count of the j-th size: that of its Measurement, or the one
\* benchmark_one_n holds while it is at work on it.
ChosenLoops(j) == IF j <= Len(results) THEN results[j].loops ELSE loops

PhasesOfSize(j, s) ==
    /\ \A a, b \in 1 .. Len(s) : a < b => PhaseRank(s[a].ev) <= PhaseRank(s[b].ev)
    /\ Len(OfKind(s, "warm")) <= Max(0, cfg.warmup_runs)
    /\ (OfKind(s, "cal") # << >> \/ OfKind(s, "rec") # << >>)
         => Len(OfKind(s, "warm")) = Max(0, cfg.warmup_runs)
    /\ Len(OfKind(s, "rec")) <= Max(1, cfg.repeats)
    /\ \A a \in 1 .. Len(s) :
         /\ s[a].ev = "warm" => s[a].k = 1
         /\ s[a].ev = "rec" => Invocations(s[a].k) = ChosenLoops(j)
    /\ j <= Len(results) =>
         /\ Len(OfKind(s, "rec")) = Max(1, cfg.repeats)
         /\ cfg.collect_distribution
              => Len(results[j].samples[1]) = Max(1, cfg.repeats)
    /\ (j = i /\ pc = "record") =>
         /\ Len(per_call_samples) = Len(OfKind(s, "rec"))
         /\ \A a \in 1 .. Len(per_call_samples) :
              per_call_samples[a].den = loops /\ per_call_samples[a].num \in clock

PhasesInOrder ==
    /\ \A j \in 1 .. i : PhasesOfSize(j, SizeEvents(j))
    /\ (Ended /\ ~UserCodeRaised) => pc = "done"

\* C17: within one size the phases run in the order warmup, calibration,
\* recorded batches: exactly max(0, warmup_runs) single invocations come
\* first, the samples come from exactly max(1, repeats) batches of exactly
\* L invocations each, timed after calibration returned L, a repeats value
\* below 1 is no error, and no sample is a warmup or calibration duration.
C17_PhasesInOrder == PhasesInOrder

\* The same, for the configurations whose max_loops is 1 or more.
PhasesInOrderUnderPositiveCap == cfg.max_loops >= 1 => PhasesInOrder

InputOfSize(s) ==
    s # << >> =>
        /\ s[1].ev = "make"
        /\ Len(OfKind(s, "make")) = 1
        /\ \A a \in 2 .. Len(s) : s[a].x = s[1].x

\* C18: for each size the factory is called exactly once, before any call
\* of the callable for that size, and every such call gets the object the
\* factory returned; the factory is not called for the next size before
\* the Measurement of the current one is complete, and no object is used
\* for two sizes.
C18_OneInputPerSize ==
    /\ \A j \in 1 .. i : InputOfSize(SizeEvents(j))
    /\ \A p, q \in 1 .. Len(log) :
         /\ p < q => log[p].i <= log[q].i
         /\ (log[p].i # log[q].i /\ log[p].ok /\ log[q].ok) => log[p].x # log[q].x
    /\ \A p \in 1 .. Len(log) :
         log[p].ev = "make" => Len(results) >= log[p].i - 1
    /\ pc = "make_input" => Len(results) = i - 1

\* Two sizes were measured, each warmed up and recorded on its own object.
C18_Witness ==
    /\ pc = "done"
    /\ Len(results) = 2
    /\ \E p, q \in 1 .. Len(log) :
         /\ log[p].ev = "warm" /\ log[p].i = 1 /\ log[p].x = 1
         /\ log[q].ev = "rec" /\ log[q].i = 2 /\ log[q].x = 2 /\ log[q].k >= 2

\* _choose_loops has returned for the first threshold, for both.
CalibratedLow == cal.phase \in {"low", "both"}
CalibratedBoth == cal.phase = "both"

\* What the batch of l invocations measures, after the clamp.
Measures(l) == ClampTotal(cal.func[l])

MinimalLoops(m, l, calls) ==
    (1 < l /\ l < cal.max_loops) =>
        /\ Measures(l) >= m
        /\ calls[Len(calls)] = l
        /\ \A p \in BatchSizes :
             p < l => /\ \E a \in 1 .. Len(calls) - 1 : calls[a] = p
                      /\ Measures(p) < m

\* C19: for a deterministic callable, when _choose_loops returns L with
\* 1 < L < max_loops, the batch of L invocations measured at least
\* min_time_per_repeat, and every smaller power of two was measured and
\* found below it.
C19_CalibratorMinimal ==
    /\ CalibratedLow => MinimalLoops(cal.m1, cal.loops1, cal.calls1)
    /\ CalibratedBoth => MinimalLoops(cal.m2, cal.loops2, cal.calls2)

\* _choose_loops returned 4 under a cap above 4, after batches of 1, 2, 4.
C19_Witness ==
    /\ CalibratedBoth
    /\ cal.loops2 = 4 /\ cal.max_loops > 4
    /\ cal.calls2 = <<1, 2, 4>>
    /\ Measures(2) < cal.m2 /\ Measures(4) >= cal.m2

FastPathReturnsOne(m, l, calls) ==
    /\ Measures(1) >= m => (l = 1 /\ calls = <<1>>)
    /\ m = 0 => l = 1

\* C20: when the first measurement of a single invocation, after the
\* clamp, is at least min_time_per_repeat, _choose_loops returns 1 after
\* that one invocation, whatever max_loops is; with min_time_per_repeat = 0
\* the loop count is 1.
C20_FastPathReturnsOne ==
    /\ CalibratedLow => FastPathReturnsOne(cal.m1, cal.loops1, cal.calls1)
    /\ CalibratedBoth => FastPathReturnsOne(cal.m2, cal.loops2, cal.calls2)

\* Under max_loops = 0 the fast path returned 1 for a threshold of 0 and
\* for a threshold the first call just meets.
C20_Witness ==
    /\ CalibratedBoth
    /\ cal.max_loops = 0
    /\ cal.m1 = 0 /\ cal.loops1 = 1 /\ cal.calls1 = <<1>>
    /\ cal.m2 = 2 /\ Measures(1) = 2 /\ cal.loops2 = 1 /\ cal.calls2 = <<1>>

\* ceil(log2(n)) for n >= 1, and 0 below.
RECURSIVE CeilLog2(_)
CeilLog2(n) == IF n <= 1 THEN 0 ELSE 1 + CeilLog2((n + 1) \div 2)

Calibrating == pc \in {"calibrate", "doubling"}
Remeasurements(j) == Len(OfKind(SizeEvents(j), "cal")) - 1
RemeasurementsBounded ==
    \A j \in 1 .. Len(n_values) : Remeasurements(j) <= CeilLog2(cfg.max_loops)

\* C21: calibration always terminates, whatever max_loops is and whatever
\* the clock returns, durations <= 0 (clamped to the epsilon) included: the
\* doubling loop makes at most ceil(log2(max_loops)) measurements after the
\* first one, and _choose_loops is left.
C21_CalibrationTerminates == []RemeasurementsBounded /\ (Calibrating ~> ~Calibrating)

\* The cap alone stops the loop: the last duration was <= 0 and was
\* clamped, the threshold is not reached, and the batch was doubled
\* ceil(log2(max_loops)) = 2 times.
C21_Witness ==
    /\ pc = "doubling"
    /\ total = Eps
    /\ total < cfg.min_time_per_repeat
    /\ loops >= cfg.max_loops
    /\ Remeasurements(i) = 2
    /\ CeilLog2(cfg.max_loops) = 2

CalibrationBatches == OfKind(log, "cal")

\* C22 as stated: no timed batch of the calibration calls the callable more
\* than max_loops times, also when max_loops is no power of two.
C22_BatchWithinCap ==
    \A k \in 1 .. Len(CalibrationBatches) :
        Invocations(CalibrationBatches[k].k) <= cfg.max_loops

\* C22 amended: a timed batch of the calibration is a power of two of calls,
\* the first batch is of 1 call whatever max_loops is, and a later one is
\* below twice max_loops; the cap only bounds the loop count returned.
C22_BatchBelowTwiceCap ==
    /\ \A k \in 1 .. Len(CalibrationBatches) :
          /\ IsPowerOfTwo(CalibrationBatches[k].k)
          /\ CalibrationBatches[k].k = 1 \/ CalibrationBatches[k].k < 2 * cfg.max_loops
    /\ pc = "record" => loops <= Max(1, cfg.max_loops)

\* The batch of 4 calls that the calibration runs under max_loops = 3,
\* from which 3 is returned.
C22_Witness ==
    /\ pc = "record"
    /\ cfg.max_loops = 3
    /\ loops = 3
    /\ \E k \in 1 .. Len(CalibrationBatches) :
          CalibrationBatches[k].i = i /\ CalibrationBatches[k].k = 4

\* The step appends one Measurement, made of the samples recorded so far.
ReturnsMeasurement ==
    /\ Len(results') = Len(results) + 1
    /\ Len(per_call_samples) = Max(1, cfg.repeats)
    /\ results'[Len(results')].seconds = Median(per_call_samples)
    /\ results'[Len(results')].loops = loops
    /\ results'[Len(results')].samples =
         IF cfg.collect_distribution THEN Some(per_call_samples) ELSE None

\* The step puts the estimate of one more batch behind the earlier ones.
RecordsSample ==
    /\ Len(per_call_samples') = Len(per_call_samples) + 1
    /\ SubSeq(per_call_samples', 1, Len(per_call_samples)) = per_call_samples

\* C30: BenchResult.samples is the list of all max(1, repeats) per-call
\* estimates in the order the batches ran when collect_distribution is true,
\* and None when it is false; seconds (the median of that list) and loops
\* are the same in both cases.
C30_SamplesKeptOrDropped ==
    [][/\ results' # results => ReturnsMeasurement
       /\ (per_call_samples' # per_call_samples /\ per_call_samples' # << >>) => RecordsSample]_vars

\* A Measurement that keeps two estimates in the order of the batches,
\* the larger one first.
C30_Witness ==
    /\ results # << >>
    /\ cfg.collect_distribution
    /\ cfg.repeats = 2
    /\ results[1].samples = Some(<<Frac(2, results[1].loops), Frac(0, results[1].loops)>>)
    /\ results[1].loops > 1

BasisOf(name) == fit.phase = "basis" /\ fit.model.name = name
Logarithmic == BasisOf("log n") \/ BasisOf("n log n")
Positive(q) == QLess(QInt(0), q)

\* C29 as stated: the logarithmic bases use log2(max(2, n)): "log n" is 1
\* for every n <= 2, and neither "log n" nor "n log n" is 0 or negative at
\* n = 0 and n = 1.
C29_LogarithmicBasesPositive ==
    /\ (BasisOf("log n") /\ fit.n <= 2) => QEq(fit.out, QInt(1))
    /\ (Logarithmic /\ fit.n \in {0, 1}) => Positive(fit.out)

\* C29 amended: "log n" is 1 for every n <= 2 and at least 1 for every n,
\* and "n log n" is n times that: 1 at n = 1 and positive for n >= 1, but
\* 0 at n = 0 and negative below.
C29_LogarithmAtLeastOne ==
    /\ (BasisOf("log n") /\ fit.n <= 2) => QEq(fit.out, QInt(1))
    /\ BasisOf("log n") => QLeq(QInt(1), fit.out)
    /\ (BasisOf("n log n") /\ fit.n <= 2) => QEq(fit.out, QInt(fit.n))
    /\ (BasisOf("n log n") /\ fit.n >= 1) => QLeq(QInt(fit.n), fit.out)

\* f_n_log_n(0) has returned 0.0.
C29_Witness == BasisOf("n log n") /\ fit.n = 0 /\ fit.arith = "double" /\ fit.out = DZero

\* The call of fit_model, fit_all_models or best_model that has returned.
FitModelReturned == fit.phase = "fit_model" /\ fit.out.err = "none"
AllSizesEqual == \A k \in 1 .. Len(fit.n_values) : fit.n_values[k] = fit.n_values[1]
SizesAtMostTwo == \A k \in 1 .. Len(fit.n_values) : fit.n_values[k] <= 2
FeatureConstant ==
    \/ fit.models[1].name = "1"
    \/ fit.models[1].name = "log n" /\ SizesAtMostTwo
    \/ AllSizesEqual

SlopeOfSums(r, mean_x, mean_y, sxx, sxy) ==
    /\ r.a = QDiv(sxy, sxx)
    /\ r.b = QSub(mean_y, QMul(QDiv(sxy, sxx), mean_x))
SlopeOfDeviations(r, mean_x, mean_y, dx, dy) ==
    SlopeOfSums(r, mean_x, mean_y, SumOfProducts(dx, dx), SumOfProducts(dx, dy))
SlopeOfMeans(r, xs, ys, mean_x, mean_y) ==
    IF FeatureConstant THEN r.a = QInt(0) /\ r.b = mean_y
    ELSE SlopeOfDeviations(r, mean_x, mean_y, Deviations(xs, mean_x), Deviations(ys, mean_y))
SlopeOf(r, xs, ys) == SlopeOfMeans(r, xs, ys, Mean(xs), Mean(ys))

\* C23: where Sxx is below the epsilon, which is always so for "1", for
\* "log n" over sizes of at most 2, and over sizes that are all equal, the
\* fit is a = 0 and b = the mean of the durations; elsewhere a = Sxy / Sxx
\* and b = mean_y - a * mean_x.
C23_DegenerateFeature ==
    FitModelReturned =>
        SlopeOf(fit.out.val, Features(fit.models[1], fit.n_values), Floats(fit.y_values))

\* The FitResults a call has returned.
Returns == fit.phase \in {"fit_model", "fit_all_models", "best_model"} /\ fit.out.err = "none"
FitResults == IF fit.phase = "fit_all_models" THEN fit.out.val ELSE <<fit.out.val>>

SumOfSquares(u) == SumOfProducts(u, u)
ScoredBySums(r, n, ss_res, ss_tot) ==
    /\ r.rmse2 = QSqrt(QDiv(ss_res, QInt(n)))
    /\ QLeq(QInt(0), r.rmse2)
    /\ QLeq(r.r2, QInt(1))
    /\ r.r2 = IF ~SsTiny(QAbs(ss_tot)) THEN QSub(QInt(1), QDiv(ss_res, ss_tot))
              ELSE IF SsTiny(ss_res) THEN QInt(1)
              ELSE QInt(0)
ScoredBy(r, xs, ys) ==
    ScoredBySums(r, Len(xs), SumOfSquares(Residuals(xs, ys, r.a, r.b)),
                 SumOfSquares(Deviations(ys, Mean(ys))))

\* C24: every FitResult has rmse = sqrt(ss_res / n) >= 0 and r2 <= 1, with
\* r2 = 1 - ss_res / ss_tot where ss_tot is at least the epsilon, and
\* elsewhere r2 = 1 if ss_res is below the epsilon and r2 = 0 if not.
C24_R2AndRmse ==
    Returns =>
        \A k \in 1 .. Len(FitResults) :
            ScoredBy(FitResults[k], Features(FitResults[k].model, fit.n_values),
                     Floats(fit.y_values))

\* A fit that explains a part of the variation: 0 < r2 < 1 and rmse > 0.
C24_Witness ==
    /\ FitModelReturned
    /\ fit.arith = "double"
    /\ Positive(fit.out.val.r2)
    /\ QLess(fit.out.val.r2, QInt(1))
    /\ Positive(fit.out.val.rmse2)

DegenerateSeries ==
    /\ Len(fit.n_values) >= 2
    /\ Len(fit.n_values) = Len(fit.y_values)
    /\ AllSizesEqual \/ EqualDurations
WellFormed(r) == QLeq(r.r2, QInt(1)) /\ QLeq(QInt(0), r.rmse2)
OnePerModel(r, models) ==
    /\ Len(r) = Len(models)
    /\ \A m \in 1 .. Len(models) : Cardinality({k \in 1 .. Len(r) : r[k].model = models[m]}) = 1

\* C25: a degenerate series is no error: for two points or more and as
\* many durations, with all sizes equal, all durations equal, or both,
\* fit_all_models raises nothing and returns one well-formed FitResult for
\* each model of the catalog.
C25_DegenerateSeriesFitted ==
    (fit.phase = "fit_all_models" /\ DegenerateSeries) =>
        /\ fit.out.err = "none"
        /\ OnePerModel(fit.out.val, fit.models)
        /\ \A k \in 1 .. Len(fit.out.val) : WellFormed(fit.out.val[k])

\* Six fits of a series in which neither the sizes nor the durations vary.
C25_Witness ==
    /\ fit.phase = "fit_all_models"
    /\ fit.arith = "double"
    /\ AllSizesEqual
    /\ EqualDurations
    /\ fit.out.err = "none"
    /\ Len(fit.out.val) = 6

ConstantFitOfMean(r, ys, mean_y) ==
    /\ r.a = QInt(0)
    /\ r.b = mean_y
    /\ r.r2 = IF SsTiny(QAbs(SumOfSquares(Deviations(ys, mean_y)))) THEN QInt(1) ELSE QInt(0)
ConstantFit(r, ys) == ConstantFitOfMean(r, ys, Mean(ys))

\* C26: the fit of the "1" model is always a = 0 and b = the mean of the
\* durations, and its r2 is exactly 0 where the durations vary (ss_tot at
\* least the epsilon) and exactly 1 where they do not: never a value
\* strictly between 0 and 1.
C26_ConstantModelR2 ==
    (FitModelReturned /\ fit.models[1].name = "1") =>
        ConstantFit(fit.out.val, Floats(fit.y_values))

\* The "1" model fitted to durations that vary: r2 = 0.0.
C26_Witness ==
    /\ FitModelReturned
    /\ fit.arith = "double"
    /\ fit.models[1].name = "1"
    /\ ~EqualDurations
    /\ fit.out.val.r2 = DZero
    /\ Positive(fit.out.val.b)

R2Slack == QDiv(QInt(1), QInt(Pow2(30)))

CatalogIndex(m) == CHOOSE k \in 1 .. Len(DEFAULT_MODELS) : DEFAULT_MODELS[k] = m
Tied(p, q) == QEq(p.r2, q.r2) /\ QEq(p.rmse2, q.rmse2)
TiesInCatalogOrder(r) ==
    \A j, k \in 1 .. Len(r) :
        (j < k /\ Tied(r[j], r[k])) => CatalogIndex(r[j].model) < CatalogIndex(r[k].model)
AllPerfect(r) == \A k \in 1 .. Len(r) : QEq(r[k].r2, QInt(1)) /\ QEq(r[k].rmse2, QInt(0))

\* The mean of the equal durations, as sum(ys) / n computes it, is the
\* duration itself.
MeanIsExact(ys) == Mean(ys) = ys[1]

\* C28 as stated: models of equal r2 and equal rmse are listed in catalog
\* order, and for exactly equal durations all six tie at r2 = 1 and
\* rmse = 0, the "1" model being first as the first of the catalog.
C28_TiesInCatalogOrder ==
    FitReturned("fit_all_models") =>
        /\ TiesInCatalogOrder(fit.out.val)
        /\ EqualDurations =>
              /\ AllPerfect(fit.out.val)
              /\ fit.out.val[1].model.name = "1"

\* C28 amended: models of equal r2 and equal rmse are listed in catalog
\* order; exactly equal durations make all six tie at r2 = 1 and rmse = 0,
\* with "1" first, where their float mean is the duration itself.
C28_TiesInCatalogOrderExactMean ==
    FitReturned("fit_all_models") =>
        /\ TiesInCatalogOrder(fit.out.val)
        /\ (EqualDurations /\ MeanIsExact(Floats(fit.y_values))) =>
              /\ AllPerfect(fit.out.val)
              /\ ModelsOf(fit.out.val) = DEFAULT_MODELS

\* Three durations of 5 s over sizes that are all 6: the six fits tie at
\* r2 = 1 and rmse = 0 and are listed as the catalog lists their models.
C28_Witness ==
    /\ FitReturned("fit_all_models")
    /\ fit.arith = "double"
    /\ fit.n_values = <<6, 6, 6>>
    /\ EqualDurations
    /\ MeanIsExact(Floats(fit.y_values))
    /\ \A k \in 1 .. 6 : Tied(fit.out.val[1], fit.out.val[k])
    /\ ModelsOf(fit.out.val) = DEFAULT_MODELS

====
